---- MODULE Spec2Model ----
(***************************************************************************)
(* A model of the MiniMQTT client (adafruit_minimqtt.py): the session      *)
(* state of one MQTT object, its public operations and the broker's        *)
(* answers.  Time is counted in units of the socket timeout; the back-off  *)
(* delay is counted in milliseconds.                                       *)
(***************************************************************************)
EXTENDS Integers, Sequences, FiniteSets, TLC

VARIABLES
    sock,                   \* _sock: "None" or "open"
    is_connected,           \* _is_connected
    pid,                    \* _pid
    subscribed_topics,      \* _subscribed_topics (a list, duplicates allowed)
    reconnect_attempt,      \* _reconnect_attempt
    reconnect_timeout,      \* _reconnect_timeout, in milliseconds
    reconnect_attempts_max, \* _reconnect_attempts_max (connect_retries)
    sinceSent,              \* ticks_ms() - _last_msg_sent_timestamp, capped
    pc,                     \* position of the public call in progress, "idle" between calls
    loc,                    \* local variables of the call in progress
    ret,                    \* how the last public call ended
    sent,                   \* packets written to the current socket during the call
    obs,                    \* what the call did, as a test double would record it
    acked,                  \* topics the broker acknowledged on this session
    allocs,                 \* packet identifiers allocated so far
    unread,                 \* the client left bytes of a packet unread on the socket
    on_message_filtered,    \* _on_message_filtered: the patterns that have a callback
    on_message,             \* _on_message is set
    lw                      \* _lw_topic, _lw_msg, _lw_qos, _lw_retain

vars == <<sock, is_connected, pid, subscribed_topics, reconnect_attempt,
          reconnect_timeout, reconnect_attempts_max, sinceSent, pc, loc, ret,
          sent, obs, acked, allocs, unread, on_message_filtered, on_message, lw>>

\* the message callbacks
Routing == <<on_message_filtered, on_message>>

-----------------------------------------------------------------------------
(* Program constants *)

PidMax == 65535
ReconnectMaximumBackoff == 32
JitterMax == 1000
ConnackFatal == {4, 5}
ConnackErrors == 1..5
MsPerSecond == 1000
TopicLengthLimit == 65535

(* Bounds of the model *)

MaxRetries == 7         \* largest connect_retries a client is built with
MaxSessionRetries == 1  \* largest connect_retries in the session specification
MaxAttemptCounter == 7  \* connect() is not started with a larger _reconnect_attempt
PidLead == 1            \* a long-running client starts PidLead below 0xFFFF
MaxAllocs == 3          \* packet identifiers allocated in one behaviour
MaxSubs == 2            \* length of _subscribed_topics
RecvTimeout == 2        \* recv_timeout, in socket timeouts
KeepAlive == 2          \* keep_alive, in socket timeouts
MaxRcs == 1             \* packets one ping() or loop() call records
MaxSent == 2            \* packets written in one call
MaxMsgs == 2            \* inbound PUBLISH packets dispatched in one call

Topics == {"a", "b"}
Jitters == {0, JitterMax}    \* randint(0, 1000), at its two ends

-----------------------------------------------------------------------------
(* Helpers *)

Min(a, b) == IF a < b THEN a ELSE b

NoLoc == [op |-> "none"]

Ret(op, exc, code, msg, value) ==
    [op |-> op, exc |-> exc, code |-> code, msg |-> msg, value |-> value]

NoRet == Ret("none", "ok", 0, "", 0)

\* the topics of a list
TopicSet(list) == {list[i] : i \in 1..Len(list)}

NoObs == [attempts |-> 0, fails |-> 0, fatalAt |-> 0, fatalCode |-> 0,
          sleepDone |-> 0, startReset |-> TRUE, allProto |-> TRUE,
          protoPrefix |-> TRUE, connackFlags |-> 0, onConnectFlags |-> 0,
          closed |-> 0, disconnects |-> 0, wasConnected |-> FALSE,
          afterTransport |-> FALSE, prevSlept |-> FALSE,
          onPublish |-> 0, onPublishPid |-> 0, ackMatched |-> FALSE,
          stray |-> FALSE, dispatched |-> 0,
          topicsBefore |-> {}, onSubscribe |-> {},
          seen |-> <<>>, loopElapsed |-> 0, loopTimeout |-> 0,
          handled |-> [done |-> FALSE, topic |-> <<>>, calls |-> {},
                       counts |-> 0, global |-> 0]]

\* is_connected()
IsConnected == is_connected /\ sock # "None"

\* nothing recorded yet, at the start of a public call
CallObs == [NoObs EXCEPT !.wasConnected = IsConnected,
                         !.startReset = (reconnect_attempt = 0)]

\* self._pid = self._pid + 1 if self._pid < 0xFFFF else 1
NextPidWrapZero(p) == (p + 1) % (PidMax + 1)
NextPid(p) == IF p < PidMax THEN p + 1 ELSE 1

\* _recompute_reconnect_backoff
RecomputeNoCap(attempt, jitter) ==
    [attempt |-> attempt + 1,
     timeout |-> (2 ^ (attempt + 1)) * MsPerSecond + jitter]
RecomputeBackoff(attempt, jitter) ==
    LET a == attempt + 1
        t == (2 ^ a) * MsPerSecond
        capped == IF t > ReconnectMaximumBackoff * MsPerSecond
                  THEN ReconnectMaximumBackoff * MsPerSecond ELSE t
    IN  [attempt |-> a, timeout |-> capped + jitter]

\* _reset_reconnect_backoff
ResetBackoff == [attempt |-> 0, timeout |-> 0]

-----------------------------------------------------------------------------
(* connect *)

\* What one connection attempt meets: the connection manager, the socket and
\* the broker.
ConnackReplies ==
    [kind : {"connack"}, remlen : {2}, flags : {0, 1}, rc : {0}]
    \cup [kind : {"connack"}, remlen : {2}, flags : {0}, rc : 1..6]
    \cup [kind : {"connack"}, remlen : {3}, flags : {0}, rc : {0}]

ConnectOutcomes ==
    ConnackReplies \cup
    [kind : {"get_socket_error", "send_error", "pystack", "silence",
             "recv_error_wrapped", "recv_oserror"},
     remlen : {0}, flags : {0}, rc : {0}]

\* _connect(): the socket it leaves in _sock, the flag, and how it ends.
\* prev is _sock on entry.
ConnectOnce(prev, conn, o) ==
    LET R(s, c, exc, code, value, wrote) ==
            [sock |-> s, is_connected |-> c, exc |-> exc, code |-> code,
             value |-> value, wrote |-> wrote]
    IN  CASE o.kind = "get_socket_error" -> R(prev, conn, "OSError", 0, 0, FALSE)
          [] o.kind = "send_error" -> R("open", conn, "OSError", 0, 0, FALSE)
          [] o.kind = "pystack" -> R("open", conn, "pystack", 0, 0, FALSE)
          [] o.kind = "silence" -> R("open", conn, "MMQTTException", 0, 0, TRUE)
          [] o.kind = "recv_error_wrapped" ->
                R("open", conn, "MMQTTException", 0, 0, TRUE)
          [] o.kind = "recv_oserror" -> R("open", conn, "OSError", 0, 0, TRUE)
          [] o.kind = "connack" ->
                IF o.remlen # 2 THEN R("open", conn, "AssertionError", 0, 0, TRUE)
                ELSE IF o.rc # 0 THEN
                    IF o.rc \in ConnackErrors
                    THEN R("open", conn, "MMQTTException", o.rc, 0, TRUE)
                    ELSE R("open", conn, "KeyError", 0, 0, TRUE)
                ELSE R("open", TRUE, "ok", 0, o.remlen % 2, TRUE)

\* connect(): which exceptions of _connect() the retry loop handles, and how
Transport(exc) == exc = "OSError"
Protocol(exc) == exc = "MMQTTException"
Handled(exc) == Transport(exc) \/ Protocol(exc)
FatalCodeOnlyUnauthorized(code) == code = 5
FatalCode(code) == code \in ConnackFatal
BackoffAfterAlways(exc) == TRUE
BackoffAfter(exc) == Protocol(exc)

ExhaustedMsgSwapped(max) ==
    IF max > 1 THEN "Connect failure" ELSE "Repeated connect failures"
ExhaustedMsg(max) ==
    IF max > 1 THEN "Repeated connect failures" ELSE "Connect failure"

Pkt(type, id, topics, qos) ==
    [type |-> type, pid |-> id, topics |-> topics, qos |-> qos]

\* A public call returns or raises: back to the caller.
Finish(op, exc, code, msg, value) ==
    /\ pc' = "idle"
    /\ loc' = NoLoc
    /\ ret' = Ret(op, exc, code, msg, value)

Running(op) == Ret(op, "running", 0, "", 0)

\* The loop of connect() is entered: for i in range(0, self._reconnect_attempts_max)
EnterConnect(caller, snapshot, resub) ==
    /\ pc' = "connecting"
    /\ loc' = [op |-> "connect", caller |-> caller, i |-> 0, backoff |-> FALSE,
               last_exception |-> "none", resub |-> snapshot,
               resubFlag |-> resub, connret |-> 0]
    /\ ret' = Running(caller)

\* connect()
ConnectBegin ==
    /\ pc = "idle"
    /\ UNCHANGED <<Routing, lw>>
    /\ reconnect_attempt + reconnect_attempts_max <= MaxAttemptCounter
    /\ EnterConnect("connect", <<>>, FALSE)
    /\ obs' = CallObs
    /\ sent' = <<>>
    /\ UNCHANGED <<sock, is_connected, pid, subscribed_topics, reconnect_attempt,
                   reconnect_timeout, reconnect_attempts_max, sinceSent, acked,
                   allocs, unread>>

\* One iteration of the loop of connect(): the back-off for this attempt,
\* _connect() with its sleep, and the handling of what _connect() raised;
\* after the last iteration, the final raise.
ConnectAttempt ==
    /\ pc = "connecting"
    /\ UNCHANGED <<Routing, lw>>
    /\ \E o \in ConnectOutcomes, j \in Jitters :
        LET i == loc.i
            bo == IF i > 0
                  THEN IF loc.backoff
                       THEN RecomputeBackoff(reconnect_attempt, j)
                       ELSE ResetBackoff
                  ELSE [attempt |-> reconnect_attempt,
                        timeout |-> reconnect_timeout]
            slept == IF bo.attempt > 0 THEN bo.timeout ELSE 0
            r == ConnectOnce(sock, is_connected, o)
            fatal == Protocol(r.exc) /\ FatalCode(r.code)
            closes == Handled(r.exc) /\ r.sock # "None"
            o1 == [obs EXCEPT
                     !.attempts = @ + 1,
                     !.fails = IF Handled(r.exc) /\ ~fatal THEN @ + 1 ELSE @,
                     !.fatalAt = IF o.kind = "connack" /\ o.remlen = 2
                                    /\ o.rc \in ConnackFatal
                                 THEN obs.attempts + 1 ELSE @,
                     !.fatalCode = IF o.kind = "connack" /\ o.remlen = 2
                                      /\ o.rc \in ConnackFatal
                                   THEN o.rc ELSE @,
                     !.sleepDone = slept,
                     !.prevSlept = (obs.sleepDone > 0),
                     !.afterTransport = (i > 0 /\ Transport(loc.last_exception)),
                     !.protoPrefix = obs.allProto,
                     !.allProto = obs.allProto /\ Protocol(r.exc) /\ ~fatal,
                     !.connackFlags = IF r.exc = "ok" THEN o.flags ELSE @,
                     !.onConnectFlags = IF r.exc = "ok" THEN r.value ELSE @,
                     !.closed = IF closes THEN @ + 1 ELSE @]
        IN  /\ (i > 0 /\ loc.backoff) \/ j = 0
            /\ obs' = o1
            /\ sent' = IF r.wrote THEN <<Pkt("CONNECT", 0, <<>>, 0)>> ELSE <<>>
            /\ sinceSent' = IF r.wrote THEN 0 ELSE sinceSent
            /\ is_connected' = r.is_connected
            /\ unread' = IF o.kind = "get_socket_error" THEN unread
                         ELSE (o.kind = "connack" /\ o.remlen # 2)
            /\ UNCHANGED <<pid, reconnect_attempts_max, allocs>>
            /\ IF r.exc = "ok"
               THEN /\ reconnect_attempt' = ResetBackoff.attempt
                    /\ reconnect_timeout' = ResetBackoff.timeout
                    /\ sock' = r.sock
                    /\ acked' = {}
                    /\ IF loc.caller = "reconnect" /\ loc.resubFlag
                          /\ loc.resub # <<>>
                       THEN /\ subscribed_topics' = <<>>
                            /\ pc' = "resub"
                            /\ loc' = [loc EXCEPT !.connret = r.value]
                            /\ ret' = ret
                       ELSE /\ subscribed_topics' = subscribed_topics
                            /\ Finish(loc.caller, "ok", 0, "", r.value)
               ELSE /\ reconnect_attempt' = bo.attempt
                    /\ reconnect_timeout' = bo.timeout
                    /\ UNCHANGED <<subscribed_topics, acked>>
                    /\ IF ~Handled(r.exc)
                       THEN \* not caught by connect(): the socket stays in _sock
                            /\ sock' = r.sock
                            /\ Finish(loc.caller,
                                      IF r.exc = "pystack" THEN "RuntimeError"
                                      ELSE r.exc, 0, "", 0)
                       ELSE /\ sock' = "None"
                            /\ IF fatal
                               THEN Finish(loc.caller, r.exc, r.code,
                                           "Connection Refused", 0)
                               ELSE IF i + 1 < reconnect_attempts_max
                               THEN /\ pc' = "connecting"
                                    /\ loc' = [loc EXCEPT
                                                 !.i = i + 1,
                                                 !.backoff = BackoffAfter(r.exc),
                                                 !.last_exception = r.exc]
                                    /\ ret' = ret
                               ELSE Finish(loc.caller, "MMQTTException", 0,
                                           ExhaustedMsg(reconnect_attempts_max), 0)

DisconnectKeepsTopics(sendOk) ==
    /\ sent' = IF sendOk THEN <<Pkt("DISCONNECT", 0, <<>>, 0)>> ELSE <<>>
    /\ sock' = "None"
    /\ is_connected' = FALSE
    /\ subscribed_topics' = subscribed_topics
    /\ sinceSent' = KeepAlive
    /\ acked' = {}
    /\ unread' = FALSE

\* disconnect() on a connected client; sendOk: the DISCONNECT packet was written
DisconnectEffect(sendOk) ==
    /\ sent' = IF sendOk THEN <<Pkt("DISCONNECT", 0, <<>>, 0)>> ELSE <<>>
    /\ sock' = "None"
    /\ is_connected' = FALSE
    /\ subscribed_topics' = <<>>
    /\ sinceSent' = KeepAlive
    /\ acked' = {}
    /\ unread' = FALSE

\* disconnect()
Disconnect ==
    /\ pc = "idle"
    /\ UNCHANGED <<Routing, lw>>
    /\ IF ~IsConnected
       THEN /\ Finish("disconnect", "MMQTTStateError", 0, "not connected", 0)
            /\ obs' = CallObs
            /\ sent' = <<>>
            /\ UNCHANGED <<sock, is_connected, subscribed_topics, sinceSent, acked,
                           unread>>
       ELSE \E sendOk \in BOOLEAN :
            /\ DisconnectEffect(sendOk)
            /\ obs' = [CallObs EXCEPT !.closed = 1, !.disconnects = 1]
            /\ Finish("disconnect", "ok", 0, "", 0)
    /\ UNCHANGED <<pid, reconnect_attempt, reconnect_timeout,
                   reconnect_attempts_max, allocs>>

\* reconnect(): `if self.is_connected():`
ReconnectDisconnectsAlways == TRUE
ReconnectDisconnects == IsConnected

\* reconnect(resub_topics): the snapshot, the disconnect, then connect()
ReconnectBegin ==
    /\ pc = "idle"
    /\ UNCHANGED <<Routing, lw>>
    /\ reconnect_attempt + reconnect_attempts_max <= MaxAttemptCounter
    /\ \E resub \in BOOLEAN :
        LET snapshot == IF ReconnectDisconnects /\ resub
                        THEN subscribed_topics ELSE <<>>
        IN  /\ allocs + Len(snapshot) <= MaxAllocs
            /\ EnterConnect("reconnect", snapshot, resub)
            /\ IF ReconnectDisconnects
               THEN \E sendOk \in BOOLEAN :
                    /\ DisconnectEffect(sendOk)
                    /\ obs' = [CallObs EXCEPT
                                 !.closed = 1, !.disconnects = 1,
                                 !.topicsBefore = TopicSet(subscribed_topics)]
               ELSE /\ obs' = CallObs
                    /\ sent' = <<>>
                    /\ UNCHANGED <<sock, is_connected, subscribed_topics,
                                   sinceSent, acked, unread>>
    /\ UNCHANGED <<pid, reconnect_attempt, reconnect_timeout,
                   reconnect_attempts_max, allocs>>

-----------------------------------------------------------------------------
(* The receive pump *)

RcValues == {0, 2, 128}
RcSeqs == {<<>>} \cup [1..1 -> RcValues] \cup [1..2 -> RcValues]

\* a packet met on the socket (pid: the packet identifier of a PUBLISH;
\* late: its first byte arrives as the socket timeout is about to expire)
Ev(kind, qos, lenOk, pidOk, rcs) ==
    [kind |-> kind, qos |-> qos, lenOk |-> lenOk, pidOk |-> pidOk, rcs |-> rcs,
     pid |-> 1, late |-> FALSE]

\* an inbound PUBLISH of QoS q with packet identifier p
Publish(q, p) == [Ev("PUBLISH", q, TRUE, TRUE, <<>>) EXCEPT !.pid = p]

\* What one call of _wait_for_msg() meets on the socket: nothing within the
\* socket timeout, a packet, or a failing read.
PumpEvents ==
    {Ev("none", 0, TRUE, TRUE, <<>>),
     Ev("oserror", 0, TRUE, TRUE, <<>>),
     Ev("wrapped", 0, TRUE, TRUE, <<>>)}
    \cup {Ev("PUBLISH", q, TRUE, TRUE, <<>>) : q \in 0..2}
    \cup {Ev("PINGRESP", 0, l, TRUE, <<>>) : l \in BOOLEAN}

PubackEvents == {Ev("PUBACK", 0, l, p, <<>>) : l \in BOOLEAN, p \in BOOLEAN}
UnsubackEvents == {Ev("UNSUBACK", 0, l, p, <<>>) : l \in BOOLEAN, p \in BOOLEAN}
SubackEvents ==
    {Ev("SUBACK", 0, TRUE, p, r) : p \in BOOLEAN, r \in RcSeqs}
    \cup {Ev("SUBACK", 0, FALSE, TRUE, <<>>)}

\* acknowledgments nobody waits for
StrayAcks ==
    {Ev("CONNACK", 0, TRUE, TRUE, <<>>), Ev("PUBACK", 0, TRUE, TRUE, <<>>),
     Ev("SUBACK", 0, TRUE, TRUE, <<>>), Ev("UNSUBACK", 0, TRUE, TRUE, <<>>)}

\* what ping() and loop() meet
Events == PumpEvents \cup {Ev("SUBACK", 0, TRUE, TRUE, <<>>)}

\* _wait_for_msg(), for a PUBLISH of QoS q: what it does once the packet is
\* read, in order (_handle_on_message, then the PUBACK if res[0] & 0x06 == 0x02)
Effects(q) == IF q = 1 THEN <<"on_message", "PUBACK">> ELSE <<"on_message">>

\* _wait_for_msg(): the packet type returned (or "None"), the exception
\* raised, what it did in order, whether the message callbacks ran and
\* whether a PUBACK was written
WaitForMsg(ev) ==
    LET Did(what, effects) == \E i \in 1..Len(effects) : effects[i] = what
        W(op, exc, effects) ==
            [op |-> op, exc |-> exc, effects |-> effects,
             dispatch |-> Did("on_message", effects),
             puback |-> Did("PUBACK", effects)]
    IN  CASE ev.kind = "none" -> W("None", "ok", <<>>)
          [] ev.kind = "oserror" -> W("None", "OSError", <<>>)
          [] ev.kind = "wrapped" -> W("None", "MMQTTException", <<>>)
          [] ev.kind = "PINGRESP" ->
                IF ev.lenOk THEN W("PINGRESP", "ok", <<>>)
                ELSE W("None", "MMQTTException", <<>>)
          [] ev.kind = "PUBLISH" ->
                IF ev.qos = 2 THEN W("None", "AssertionError", Effects(ev.qos))
                ELSE W("PUBLISH", "ok", Effects(ev.qos))
          [] OTHER -> W(ev.kind, "ok", <<>>)

\* time one call of _wait_for_msg() takes, in socket timeouts
\* the unit of time: a read that meets no data takes the socket timeout
SocketTimeout == 1

Took(ev) == IF ev.kind = "none" \/ ev.late THEN SocketTimeout ELSE 0

\* the packets on the wire after the pump has handled ev
AfterPumpFirstId(ev) ==
    IF WaitForMsg(ev).puback
    THEN Append(sent, Pkt("PUBACK", 1, <<>>, 0)) ELSE sent
AfterPump(ev) ==
    IF WaitForMsg(ev).puback
    THEN Append(sent, Pkt("PUBACK", ev.pid, <<>>, 0)) ELSE sent

\* what the message callbacks have been given after the pump has handled ev
AfterDispatchNever(ev) == obs
AfterDispatch(ev) ==
    IF WaitForMsg(ev).dispatch
    THEN [obs EXCEPT !.dispatched = @ + 1] ELSE obs

PumpGuard(ev) ==
    /\ WaitForMsg(ev).puback => Len(sent) < MaxSent
    /\ WaitForMsg(ev).dispatch => obs.dispatched < MaxMsgs

AckKinds == {"CONNACK", "PUBACK", "SUBACK", "UNSUBACK"}

\* a control packet that is neither a PUBLISH nor the packet the call awaits
IsStray(ev, awaited) == ev.kind \in (AckKinds \cup {"PINGRESP"}) \ {awaited}

\* bytes of a packet are left on the socket once the caller of
\* _wait_for_msg() has handled ev: only the first byte of a packet it does
\* not await is read, and a failed assert ends the reading of an awaited one
Unread(ev, awaited) ==
    \/ unread
    \/ ev.kind \in AckKinds \ {awaited}
    \/ ev.kind = awaited /\ awaited = "SUBACK" /\ ~ev.pidOk /\ ev.rcs # <<>>
    \/ ev.kind = awaited /\ awaited = "PUBACK" /\ ~ev.lenOk

\* what the call has met so far
Met(ev, awaited) ==
    [AfterDispatch(ev) EXCEPT !.stray = @ \/ IsStray(ev, awaited)]

Aged(t, ev) == Min(t + Took(ev), KeepAlive)

TopOp == IF loc.caller # "none" THEN loc.caller ELSE loc.op

WaitLoc(op, caller) ==
    [op |-> op, caller |-> caller, topics |-> <<>>, qos |-> 0, elapsed |-> 0,
     rcs |-> <<>>, lelapsed |-> 0, ltimeout |-> 0, lrcs |-> <<>>,
     resub |-> <<>>, connret |-> 0]

\* the call in progress raises exc
Raise(exc) == Finish(TopOp, exc, 0, "", 0)

RaiseMsg(exc, msg) == Finish(TopOp, exc, 0, msg, 0)

NoData == "No data received from broker"

\* ticks_diff(ticks_ms(), stamp) / 1000 > self._recv_timeout
TimedOutNever(t) == FALSE
TimedOut(t) == t > RecvTimeout

\* _connected()
NotConnected(op) == Finish(op, "MMQTTStateError", 0, "not connected", 0)

Session == <<sock, is_connected, subscribed_topics, reconnect_attempt,
             reconnect_timeout, reconnect_attempts_max>>

-----------------------------------------------------------------------------
(* publish *)

\* the qos arguments tried
QosLevels == {0, 1, 2, 3}

\* a topic argument: None, or a string given by its encoded length and the
\* wildcard character it contains ("" when it has none)
Arg(none, len, wild) == [none |-> none, len |-> len, wild |-> wild]

PublishTopics ==
    {Arg(TRUE, 0, ""), Arg(FALSE, 0, ""), Arg(FALSE, 1, ""),
     Arg(FALSE, TopicLengthLimit, ""), Arg(FALSE, TopicLengthLimit + 1, ""),
     Arg(FALSE, 2, "+"), Arg(FALSE, 2, "#")}

\* _valid_topic(topic): the message of the ValueError raised, "" when none is
ValidTopicNoneOnly(t) == IF t.none THEN "Topic may not be NoneType" ELSE ""
ValidTopic(t) ==
    IF t.none THEN "Topic may not be NoneType"
    ELSE IF t.len = 0 THEN "Topic may not be empty."
    ELSE IF t.len > TopicLengthLimit THEN "Encoded topic length is larger"
    ELSE ""

\* _valid_qos(qos_level), for an integer: the exception raised, "ok" when none is
ValidQos(q) == IF q < 0 \/ q > 2 THEN "NotImplementedError" ELSE "ok"

\* the checks publish() makes on its arguments after _connected()
PublishCheck(t, q) ==
    IF ValidTopic(t) # "" THEN [exc |-> "ValueError", msg |-> ValidTopic(t)]
    ELSE IF t.wild # ""
    THEN [exc |-> "ValueError", msg |-> "Publish topic can not contain wildcards."]
    ELSE IF ValidQos(q) # "ok"
    THEN [exc |-> ValidQos(q), msg |-> "QoS must be between 1 and 2."]
    ELSE [exc |-> "ok", msg |-> ""]

\* publish(topic, msg, retain, qos) up to the last _send_bytes and on_publish
PublishCall(t, q) ==
    /\ pc = "idle"
    /\ UNCHANGED <<Routing, lw>>
    /\ UNCHANGED <<Session, acked, unread>>
    /\ IF ~IsConnected
       THEN /\ NotConnected("publish")
            /\ obs' = CallObs
            /\ sent' = <<>>
            /\ UNCHANGED <<pid, allocs, sinceSent>>
       ELSE IF PublishCheck(t, q).exc # "ok"
       THEN /\ Finish("publish", PublishCheck(t, q).exc, 0, PublishCheck(t, q).msg, 0)
            /\ obs' = CallObs
            /\ sent' = <<>>
            /\ UNCHANGED <<pid, allocs, sinceSent>>
       ELSE \E sendOk \in BOOLEAN :
            /\ q > 0 => allocs < MaxAllocs
            /\ pid' = IF q > 0 THEN NextPid(pid) ELSE pid
            /\ allocs' = IF q > 0 THEN allocs + 1 ELSE allocs
            /\ IF ~sendOk
               THEN /\ sent' = <<>>
                    /\ sinceSent' = sinceSent
                    /\ obs' = CallObs
                    /\ Finish("publish", "OSError", 0, "", 0)
               ELSE /\ sent' = <<Pkt("PUBLISH", IF q > 0 THEN pid' ELSE 0, <<>>, q)>>
                    /\ sinceSent' = 0
                    /\ obs' = IF q = 0
                              THEN [CallObs EXCEPT !.onPublish = 1,
                                                   !.onPublishPid = pid']
                              ELSE CallObs
                    /\ IF q = 1
                       THEN /\ pc' = "puback"
                            /\ loc' = WaitLoc("publish", "none")
                            /\ ret' = Running("publish")
                       ELSE Finish("publish", "ok", 0, "", 0)

\* publish()
PublishBegin == \E t \in PublishTopics, q \in QosLevels : PublishCall(t, q)

\* if self._pid == rcv_pid
PubackMatchesAny(ev) == TRUE
PubackMatches(ev) == ev.pidOk

\* one turn of the loop of publish() that waits for the PUBACK
PubackOn(ev) ==
    LET w == WaitForMsg(ev)
        t == loc.elapsed + Took(ev)
        o == Met(ev, "PUBACK")
    IN  /\ pc = "puback"
        /\ UNCHANGED <<Routing, lw>>
        /\ PumpGuard(ev)
        /\ sent' = AfterPump(ev)
        /\ sinceSent' = Aged(sinceSent, ev)
        /\ unread' = Unread(ev, "PUBACK")
        /\ UNCHANGED <<Session, pid, allocs, acked>>
        /\ IF w.exc # "ok" THEN Raise(w.exc) /\ obs' = o
           ELSE IF w.op = "PUBACK"
           THEN IF ~ev.lenOk THEN Raise("AssertionError") /\ obs' = o
                ELSE IF PubackMatches(ev)
                THEN /\ obs' = [o EXCEPT !.onPublish = @ + 1,
                                         !.onPublishPid = pid,
                                         !.ackMatched = ev.pidOk]
                     /\ Finish("publish", "ok", 0, "", 0)
                ELSE /\ obs' = o
                     /\ UNCHANGED <<pc, loc, ret>>
           ELSE IF w.op = "None" /\ TimedOut(t)
           THEN RaiseMsg("MMQTTException", NoData) /\ obs' = o
           ELSE /\ loc' = [loc EXCEPT !.elapsed = t]
                /\ obs' = o
                /\ UNCHANGED <<pc, ret>>

PubackStep == \E ev \in PumpEvents \cup PubackEvents \cup StrayAcks : PubackOn(ev)

-----------------------------------------------------------------------------
(* subscribe *)

SubRequests == {<<"a">>, <<"b">>, <<"a", "b">>}

\* if rc[i] not in [0, 1, 2]
AckSuccessAny(rc) == TRUE
AckSuccess(rc) == rc \in {0, 1, 2}

SubackFailure == "SUBACK Failure for topic"

\* the first return code of a SUBACK that is not a success, 0 if none
FirstFailure(rcs) ==
    IF \E i \in 1..Len(rcs) : ~AckSuccess(rcs[i])
    THEN CHOOSE i \in 1..Len(rcs) :
            /\ ~AckSuccess(rcs[i])
            /\ \A k \in 1..(i - 1) : AckSuccess(rcs[k])
    ELSE 0

\* how subscribe() ends on a SUBACK
SubackCheck(topics, ev) ==
    IF ~ev.lenOk \/ ~ev.pidOk THEN "AssertionError"
    ELSE IF FirstFailure(ev.rcs) = 0 THEN "ok"
    ELSE IF FirstFailure(ev.rcs) > Len(topics) THEN "IndexError"
    ELSE "MMQTTException"

\* the topics a SUBACK for the request acknowledges with a success code
Granted(topics, ev) ==
    IF ev.lenOk /\ ev.pidOk
    THEN {topics[i] : i \in {k \in 1..Min(Len(topics), Len(ev.rcs)) :
                                 ev.rcs[k] \in {0, 1, 2}}}
    ELSE {}

\* subscribe(): the packet is written and the wait for the SUBACK begins
SubscribeSend(topics, q, caller, rest, connret) ==
    \E stage \in {"ok", "fail_header", "fail_payload"} :
        /\ pid' = IF stage = "fail_header" THEN pid ELSE NextPid(pid)
        /\ allocs' = IF stage = "fail_header" THEN allocs ELSE allocs + 1
        /\ IF stage = "ok"
           THEN /\ sent' = Append(IF caller = "reconnect" THEN sent ELSE <<>>,
                                  Pkt("SUBSCRIBE", pid', topics, q))
                /\ sinceSent' = 0
                /\ pc' = "suback"
                /\ loc' = [WaitLoc("subscribe", caller) EXCEPT
                             !.topics = topics, !.qos = q, !.resub = rest,
                             !.connret = connret]
                /\ ret' = Running(IF caller = "none" THEN "subscribe" ELSE caller)
           ELSE /\ sent' = IF caller = "reconnect" THEN sent ELSE <<>>
                /\ sinceSent' = sinceSent
                /\ Finish(IF caller = "none" THEN "subscribe" ELSE caller,
                          "OSError", 0, "", 0)

\* subscribe(topic, qos) up to the last _send_bytes
SubscribeCall(topics, q) ==
    /\ pc = "idle"
    /\ UNCHANGED <<Routing, lw>>
    /\ obs' = CallObs
    /\ UNCHANGED <<Session, acked, unread>>
    /\ IF ~IsConnected
       THEN /\ NotConnected("subscribe")
            /\ sent' = <<>>
            /\ UNCHANGED <<pid, allocs, sinceSent>>
       ELSE IF ValidQos(q) # "ok"
       THEN /\ Finish("subscribe", ValidQos(q), 0,
                      "QoS must be between 1 and 2.", 0)
            /\ sent' = <<>>
            /\ UNCHANGED <<pid, allocs, sinceSent>>
       ELSE /\ allocs < MaxAllocs
            /\ Len(subscribed_topics) + Len(topics) <= MaxSubs
            /\ SubscribeSend(topics, q, "none", <<>>, 0)

\* subscribe()
SubscribeBegin ==
    \E topics \in SubRequests, q \in QosLevels : SubscribeCall(topics, q)

\* for t, q in topics: self.on_subscribe(self, self.user_data, t, q)
OnSubscribeNever(topics, q) == {}
OnSubscribe(topics, q) == {<<topics[i], q>> : i \in 1..Len(topics)}

\* one turn of the loop of subscribe() that waits for the SUBACK
SubackOn(ev) ==
    LET w == WaitForMsg(ev)
        t == loc.elapsed + Took(ev)
        end == SubackCheck(loc.topics, ev)
    IN  /\ pc = "suback"
        /\ UNCHANGED <<Routing, lw>>
        /\ PumpGuard(ev)
        /\ sent' = AfterPump(ev)
        /\ sinceSent' = Aged(sinceSent, ev)
        /\ unread' = Unread(ev, "SUBACK")
        /\ obs' = IF w.exc = "ok" /\ w.op = "SUBACK" /\ end = "ok"
                  THEN [Met(ev, "SUBACK") EXCEPT
                          !.onSubscribe = @ \cup OnSubscribe(loc.topics, loc.qos)]
                  ELSE Met(ev, "SUBACK")
        /\ UNCHANGED <<sock, is_connected, reconnect_attempt,
                       reconnect_timeout, reconnect_attempts_max, pid, allocs>>
        /\ acked' = IF w.exc = "ok" /\ w.op = "SUBACK"
                    THEN acked \cup Granted(loc.topics, ev) ELSE acked
        /\ IF w.exc # "ok"
           THEN Raise(w.exc) /\ UNCHANGED subscribed_topics
           ELSE IF w.op = "None"
           THEN /\ UNCHANGED subscribed_topics
                /\ IF TimedOut(t) THEN RaiseMsg("MMQTTException", NoData)
                   ELSE /\ loc' = [loc EXCEPT !.elapsed = t]
                        /\ UNCHANGED <<pc, ret>>
           ELSE IF w.op = "SUBACK"
           THEN IF end # "ok"
                THEN /\ RaiseMsg(end, IF end = "MMQTTException"
                                      THEN SubackFailure ELSE "")
                     /\ UNCHANGED subscribed_topics
                ELSE /\ subscribed_topics' = subscribed_topics \o loc.topics
                     /\ IF loc.caller = "reconnect"
                        THEN /\ pc' = "resub"
                             /\ loc' = loc
                             /\ ret' = ret
                        ELSE Finish("subscribe", "ok", 0, "", 0)
           ELSE IF w.op # "PUBLISH"
           THEN Raise("MMQTTException") /\ UNCHANGED subscribed_topics
           ELSE /\ loc' = [loc EXCEPT !.elapsed = t]
                /\ UNCHANGED <<subscribed_topics, pc, ret>>

SubackStep == \E ev \in PumpEvents \cup SubackEvents \cup StrayAcks : SubackOn(ev)

\* reconnect(): while subscribed_topics: feed = subscribed_topics.pop();
\* self.subscribe(feed)
ResubNext ==
    /\ pc = "resub"
    /\ UNCHANGED <<Routing, lw>>
    /\ obs' = obs
    /\ UNCHANGED <<Session, acked, unread>>
    /\ IF loc.resub = <<>>
       THEN /\ Finish("reconnect", "ok", 0, "", loc.connret)
            /\ UNCHANGED <<pid, allocs, sent, sinceSent>>
       ELSE LET n == Len(loc.resub)
            IN  SubscribeSend(<<loc.resub[n]>>, 0, "reconnect",
                              SubSeq(loc.resub, 1, n - 1), loc.connret)

-----------------------------------------------------------------------------
(* unsubscribe *)

UnsubRequests == {<<>>, <<"a">>, <<"b">>, <<"a", "b">>}

InList(t, list) == \E i \in 1..Len(list) : list[i] = t

\* list.remove(t): the first occurrence goes
RECURSIVE RemoveFirst(_, _)
RemoveFirst(list, t) ==
    IF list = <<>> THEN <<>>
    ELSE IF Head(list) = t THEN Tail(list)
    ELSE <<Head(list)>> \o RemoveFirst(Tail(list), t)

\* for t in topics: self._subscribed_topics.remove(t)
RECURSIVE RemoveEach(_, _)
RemoveEach(list, topics) ==
    IF topics = <<>> THEN list
    ELSE RemoveEach(RemoveFirst(list, Head(topics)), Tail(topics))

\* the check unsubscribe() makes before it writes anything
UnsubGuardFirstOnly(topics) ==
    IF topics # <<>> /\ ~InList(topics[1], subscribed_topics)
    THEN "MMQTTStateError"
    ELSE IF sock = "None" THEN "AttributeError"
    ELSE "ok"
UnsubGuard(topics) ==
    IF \E i \in 1..Len(topics) : ~InList(topics[i], subscribed_topics)
    THEN "MMQTTStateError"
    ELSE IF sock = "None" THEN "AttributeError"
    ELSE "ok"

\* unsubscribe(topic) up to the last _send_bytes
UnsubscribeCall(topics) ==
    /\ pc = "idle"
    /\ UNCHANGED <<Routing, lw>>
    /\ obs' = CallObs
    /\ UNCHANGED <<Session, acked, unread>>
    /\ IF UnsubGuard(topics) # "ok"
       THEN /\ Finish("unsubscribe", UnsubGuard(topics), 0, "", 0)
            /\ sent' = <<>>
            /\ UNCHANGED <<pid, allocs, sinceSent>>
       ELSE \E stage \in {"ok", "fail_header", "fail_payload"} :
            /\ allocs < MaxAllocs
            /\ pid' = IF stage = "fail_header" THEN pid ELSE NextPid(pid)
            /\ allocs' = IF stage = "fail_header" THEN allocs ELSE allocs + 1
            /\ IF stage = "ok"
               THEN /\ sent' = <<Pkt("UNSUBSCRIBE", pid', topics, 0)>>
                    /\ sinceSent' = 0
                    /\ pc' = "unsuback"
                    /\ loc' = [WaitLoc("unsubscribe", "none") EXCEPT
                                 !.topics = topics]
                    /\ ret' = Running("unsubscribe")
               ELSE /\ sent' = <<>>
                    /\ sinceSent' = sinceSent
                    /\ Finish("unsubscribe", "OSError", 0, "", 0)

\* unsubscribe()
UnsubscribeBegin == \E topics \in UnsubRequests : UnsubscribeCall(topics)

\* one turn of the loop of unsubscribe() that waits for the UNSUBACK; the
\* loop takes its time stamp anew in every turn, so the time it compares with
\* recv_timeout is that of one _wait_for_msg(); loc.elapsed is the time since
\* the request was written
UnsubackOn(ev) ==
    LET w == WaitForMsg(ev)
        t == Took(ev)
        waited == Min(loc.elapsed + Took(ev), RecvTimeout + 1)
    IN  /\ pc = "unsuback"
        /\ UNCHANGED <<Routing, lw>>
        /\ PumpGuard(ev)
        /\ sent' = AfterPump(ev)
        /\ sinceSent' = Aged(sinceSent, ev)
        /\ unread' = Unread(ev, "UNSUBACK")
        /\ obs' = Met(ev, "UNSUBACK")
        /\ UNCHANGED <<sock, is_connected, reconnect_attempt,
                       reconnect_timeout, reconnect_attempts_max, pid, allocs>>
        /\ acked' = IF w.exc = "ok" /\ w.op = "UNSUBACK" /\ ev.lenOk /\ ev.pidOk
                    THEN acked \ {loc.topics[i] : i \in 1..Len(loc.topics)}
                    ELSE acked
        /\ IF w.exc # "ok"
           THEN Raise(w.exc) /\ UNCHANGED subscribed_topics
           ELSE IF w.op = "None"
           THEN /\ UNCHANGED subscribed_topics
                /\ IF TimedOut(t) THEN RaiseMsg("MMQTTException", NoData)
                   ELSE /\ loc' = [loc EXCEPT !.elapsed = waited]
                        /\ UNCHANGED <<pc, ret>>
           ELSE IF w.op = "UNSUBACK"
           THEN IF ~ev.lenOk \/ ~ev.pidOk
                THEN Raise("AssertionError") /\ UNCHANGED subscribed_topics
                ELSE /\ subscribed_topics' =
                            RemoveEach(subscribed_topics, loc.topics)
                     /\ Finish("unsubscribe", "ok", 0, "", 0)
           ELSE IF w.op # "PUBLISH"
           THEN Raise("MMQTTException") /\ UNCHANGED subscribed_topics
           ELSE UNCHANGED <<subscribed_topics, pc, loc, ret>>

UnsubackStep ==
    \E ev \in PumpEvents \cup UnsubackEvents \cup StrayAcks : UnsubackOn(ev)

-----------------------------------------------------------------------------
(* ping and loop *)

NoPingresp == "PINGRESP not returned from broker"

\* ping(): the PINGREQ is written and the wait for the PINGRESP begins
PingSend(caller, base) ==
    \E sendOk \in BOOLEAN :
        IF sendOk
        THEN /\ sent' = <<Pkt("PINGREQ", 0, <<>>, 0)>>
             /\ sinceSent' = 0
             /\ pc' = "pingresp"
             /\ loc' = [base EXCEPT !.op = "ping", !.caller = caller,
                                    !.elapsed = 0, !.rcs = <<>>]
             /\ ret' = Running(IF caller = "none" THEN "ping" ELSE caller)
        ELSE /\ sent' = <<>>
             /\ sinceSent' = sinceSent
             /\ Finish(IF caller = "none" THEN "ping" ELSE caller,
                       "OSError", 0, "", 0)

\* ping()
PingBegin ==
    /\ pc = "idle"
    /\ UNCHANGED <<Routing, lw>>
    /\ obs' = CallObs
    /\ UNCHANGED <<Session, pid, allocs, acked, unread>>
    /\ IF ~IsConnected
       THEN /\ NotConnected("ping")
            /\ UNCHANGED sinceSent
            /\ sent' = <<>>
       ELSE PingSend("none", WaitLoc("ping", "none"))

\* the time a loop() call can take at most: its timeout, the wait of a ping
\* and one more read
LoopLongest(timeout) == timeout + KeepAlive + 1

\* ticks_diff(ticks_ms(), stamp) / 1000 > timeout
LoopTimedOutAtOnce(t, timeout) == TRUE
LoopTimedOut(t, timeout) == t > timeout

\* return rcs if rcs else None
LoopResult(rcs) == [none |-> rcs = <<>>, rcs |-> rcs]

\* the record of a pump call made by loop() or ping(): the callbacks run and
\* the packet type met, if any
Seen(ev) ==
    [AfterDispatch(ev) EXCEPT
       !.seen = IF WaitForMsg(ev).exc = "ok" /\ WaitForMsg(ev).op # "None"
                THEN Append(@, WaitForMsg(ev).op) ELSE @]

\* the record of a loop() call that returns after t
Returned(o, t) == [o EXCEPT !.loopElapsed = t, !.loopTimeout = loc.ltimeout]

\* loop(): rc = self._wait_for_msg() and the check of the loop's timeout
LoopWait(ev) ==
    LET w == WaitForMsg(ev)
        t == Min(loc.lelapsed + Took(ev), LoopLongest(loc.ltimeout))
        rcs == IF w.op # "None" THEN Append(loc.lrcs, w.op) ELSE loc.lrcs
    IN  /\ PumpGuard(ev)
        /\ w.op # "None" => Len(loc.lrcs) < MaxRcs
        /\ sent' = AfterPump(ev)
        /\ sinceSent' = Aged(sinceSent, ev)
        /\ obs' = IF w.exc = "ok" /\ LoopTimedOut(t, loc.ltimeout)
                  THEN Returned(Seen(ev), t) ELSE Seen(ev)
        /\ unread' = Unread(ev, "PINGRESP")
        /\ IF w.exc # "ok" THEN Raise(w.exc)
           ELSE IF LoopTimedOut(t, loc.ltimeout)
           THEN Finish("loop", "ok", 0, "", LoopResult(rcs))
           ELSE /\ pc' = "loop"
                /\ loc' = [loc EXCEPT !.op = "loop", !.caller = "none",
                                      !.lelapsed = t, !.lrcs = rcs]
                /\ ret' = ret

\* one turn of the loop of ping() that waits for the PINGRESP
PingStep ==
    /\ pc = "pingresp"
    /\ UNCHANGED <<Routing, lw>>
    /\ UNCHANGED <<Session, pid, allocs, acked>>
    /\ \E ev \in Events :
        LET w == WaitForMsg(ev)
            t == Min(loc.elapsed + Took(ev), KeepAlive + 1)
            lt == Min(loc.lelapsed + Took(ev), LoopLongest(loc.ltimeout))
            rcs == IF w.op # "None" THEN Append(loc.rcs, w.op) ELSE loc.rcs
        IN  /\ PumpGuard(ev)
            /\ (w.op # "None" /\ w.op # "PINGRESP") => Len(loc.rcs) < MaxRcs
            /\ sent' = AfterPump(ev)
            /\ sinceSent' = Aged(sinceSent, ev)
            /\ obs' = IF /\ w.exc = "ok"
                         /\ t <= KeepAlive
                         /\ w.op = "PINGRESP"
                         /\ loc.caller = "loop"
                         /\ LoopTimedOut(lt, loc.ltimeout)
                      THEN Returned(Seen(ev), lt) ELSE Seen(ev)
            /\ unread' = Unread(ev, "PINGRESP")
            /\ IF w.exc # "ok" THEN Raise(w.exc)
               ELSE IF t > KeepAlive
               THEN RaiseMsg("MMQTTException", NoPingresp)
               ELSE IF w.op # "PINGRESP"
               THEN /\ loc' = [loc EXCEPT !.elapsed = t, !.lelapsed = lt,
                                          !.rcs = rcs]
                    /\ UNCHANGED <<pc, ret>>
               ELSE IF loc.caller = "loop"
               THEN \* rcs.extend(self.ping()) and the check after it
                    IF LoopTimedOut(lt, loc.ltimeout)
                    THEN Finish("loop", "ok", 0, "", LoopResult(loc.lrcs \o rcs))
                    ELSE /\ pc' = "loopwait"
                         /\ loc' = [loc EXCEPT !.lelapsed = lt,
                                               !.lrcs = loc.lrcs \o rcs]
                         /\ ret' = ret
               ELSE Finish("ping", "ok", 0, "", rcs)

LoopTimeouts == {0, 1, 2}

\* loop(timeout) up to its loop; the socket timeout is one unit of time
LoopCall(timeout) ==
    /\ pc = "idle"
    /\ UNCHANGED <<Routing, lw>>
    /\ obs' = CallObs
    /\ sent' = <<>>
    /\ UNCHANGED <<Session, pid, allocs, acked, sinceSent, unread>>
    /\ IF timeout < SocketTimeout
       THEN Finish("loop", "ValueError", 0, "loop timeout", 0)
       ELSE IF ~IsConnected THEN NotConnected("loop")
       ELSE /\ pc' = "loop"
            /\ loc' = [WaitLoc("loop", "none") EXCEPT !.ltimeout = timeout]
            /\ ret' = Running("loop")

\* loop()
LoopBegin == \E timeout \in LoopTimeouts : LoopCall(timeout)

\* ticks_diff(ticks_ms(), self._last_msg_sent_timestamp) / 1000 >= self.keep_alive
KeepAliveDueLate(since) == since > KeepAlive
KeepAliveDue(since) == since >= KeepAlive

\* one turn of the loop of loop(): a ping when the keep-alive is due, else
\* the receive pump
LoopStep ==
    /\ pc = "loop"
    /\ UNCHANGED <<Routing, lw>>
    /\ UNCHANGED <<Session, pid, allocs, acked>>
    /\ IF KeepAliveDue(sinceSent)
       THEN PingSend("loop", loc) /\ UNCHANGED <<obs, unread>>
       ELSE \E ev \in Events : LoopWait(ev)

\* loop(): the receive pump after the ping of the same turn
LoopAfterPing ==
    /\ pc = "loopwait"
    /\ UNCHANGED <<Routing, lw>>
    /\ UNCHANGED <<Session, pid, allocs, acked>>
    /\ \E ev \in Events : LoopWait(ev)

\* time passes between two calls
Tick ==
    /\ pc = "idle"
    /\ UNCHANGED <<Routing, lw>>
    /\ sinceSent < KeepAlive
    /\ sinceSent' = sinceSent + 1
    /\ UNCHANGED <<Session, pid, allocs, acked, obs, pc, loc, ret, sent, unread>>

-----------------------------------------------------------------------------
(* last will *)

MsgMaxSz == 268435455

\* a msg argument: its Python type and its encoded length
Msg(type, len) == [type |-> type, len |-> len]

WillTopics ==
    {Arg(TRUE, 0, ""), Arg(FALSE, 1, ""), Arg(FALSE, TopicLengthLimit, ""),
     Arg(FALSE, 2, "#")}

WillMsgs ==
    {Msg("None", 0), Msg("str", 1), Msg("bytes", 2), Msg("list", 1),
     Msg("bytes", MsgMaxSz + 1)}

WillQos == {0, 1, 3}

\* _lw_topic, _lw_msg, _lw_qos, _lw_retain after __init__
NoWill ==
    [topic |-> Arg(TRUE, 0, ""), msg |-> Msg("None", 0), qos |-> 0,
     retain |-> FALSE]

\* msg as will_set() stores it: numbers and strings encoded, bytes unchanged
Encoded(m) == Msg("bytes", m.len)

\* if self._is_connected
WillRejectedNever == FALSE
WillRejected == is_connected

\* the checks will_set() makes on its arguments
WillCheck(t, m, q) ==
    IF ValidTopic(t) # "" THEN [exc |-> "ValueError", msg |-> ValidTopic(t)]
    ELSE IF t.wild # ""
    THEN [exc |-> "ValueError", msg |-> "Publish topic can not contain wildcards."]
    ELSE IF m.type = "None"
    THEN [exc |-> "ValueError", msg |-> "Message can not be None."]
    ELSE IF m.type \notin {"int", "float", "str", "bytes"}
    THEN [exc |-> "ValueError", msg |-> "Invalid message data type."]
    ELSE IF m.len > MsgMaxSz
    THEN [exc |-> "ValueError", msg |-> "Message size larger than"]
    ELSE IF ValidQos(q) # "ok"
    THEN [exc |-> ValidQos(q), msg |-> "QoS must be between 1 and 2."]
    ELSE [exc |-> "ok", msg |-> ""]

\* will_set(topic, msg, retain, qos)
WillSetCall(t, m, r, q) ==
    /\ pc = "idle"
    /\ UNCHANGED <<Session, Routing, acked, sinceSent, unread>>
    /\ obs' = CallObs
    /\ sent' = <<>>
    /\ IF WillRejected
       THEN /\ Finish("will_set", "MMQTTStateError", 0,
                      "Last Will should only be called before connect().", 0)
            /\ UNCHANGED <<pid, allocs, lw>>
       ELSE IF WillCheck(t, m, q).exc # "ok"
       THEN /\ Finish("will_set", WillCheck(t, m, q).exc, 0,
                      WillCheck(t, m, q).msg, 0)
            /\ UNCHANGED <<pid, allocs, lw>>
       ELSE /\ q > 0 => allocs < MaxAllocs
            /\ pid' = IF q > 0 THEN NextPid(pid) ELSE pid
            /\ allocs' = IF q > 0 THEN allocs + 1 ELSE allocs
            /\ lw' = [topic |-> t, msg |-> Encoded(m), qos |-> q, retain |-> r]
            /\ Finish("will_set", "ok", 0, "", 0)

WillSet ==
    \E t \in WillTopics, m \in WillMsgs, r \in BOOLEAN, q \in WillQos :
        WillSetCall(t, m, r, q)

-----------------------------------------------------------------------------
(* Specifications *)

\* The state after MQTT.__init__, for a client built with connect_retries in
\* 1..maxRetries; pids: the values _pid may have (0 after construction).
InitWith(maxRetries, pids) ==
    /\ sock = "None"
    /\ is_connected = FALSE
    /\ pid \in pids
    /\ subscribed_topics = <<>>
    /\ reconnect_attempt = 0
    /\ reconnect_timeout = 0
    /\ reconnect_attempts_max \in 1..maxRetries
    /\ sinceSent = KeepAlive
    /\ pc = "idle"
    /\ loc = NoLoc
    /\ ret = NoRet
    /\ sent = <<>>
    /\ obs = NoObs
    /\ acked = {}
    /\ allocs = 0
    /\ unread = FALSE
    /\ on_message_filtered = {}
    /\ on_message = FALSE
    /\ lw = NoWill

\* Connecting, disconnecting and reconnecting, for every connect_retries
InitConnect == InitWith(MaxRetries, {0})

NextConnect ==
    \/ ConnectBegin
    \/ ConnectAttempt
    \/ Disconnect
    \/ ReconnectBegin

SpecConnect == InitConnect /\ [][NextConnect]_vars

\* Every public operation, for a client built with a small connect_retries
Init == InitWith(MaxSessionRetries, {0, PidMax - PidLead})

Next ==
    \/ ConnectBegin
    \/ ConnectAttempt
    \/ Disconnect
    \/ ReconnectBegin
    \/ ResubNext
    \/ PublishBegin
    \/ PubackStep
    \/ SubscribeBegin
    \/ SubackStep
    \/ UnsubscribeBegin
    \/ UnsubackStep
    \/ PingBegin
    \/ PingStep
    \/ LoopBegin
    \/ LoopStep
    \/ LoopAfterPing
    \/ Tick

Spec == Init /\ [][Next]_vars

\* A broker that answers a request with its acknowledgment or not at all,
\* on a socket that may fail
PlainEvents(awaited, rcs) ==
    {Ev("none", 0, TRUE, TRUE, <<>>), Ev("oserror", 0, TRUE, TRUE, <<>>),
     Ev(awaited, 0, TRUE, TRUE, rcs)}

PubackPlain == \E ev \in PlainEvents("PUBACK", <<>>) : PubackOn(ev)
SubackPlain == \E ev \in PlainEvents("SUBACK", <<0>>) : SubackOn(ev)
UnsubackPlain == \E ev \in PlainEvents("UNSUBACK", <<>>) : UnsubackOn(ev)

\* Connecting and the operations that allocate packet identifiers
NextPackets ==
    \/ ConnectBegin
    \/ ConnectAttempt
    \/ PublishBegin
    \/ PubackPlain
    \/ SubscribeBegin
    \/ SubackPlain
    \/ UnsubscribeBegin
    \/ UnsubackPlain

\* a client built with connect_retries = 1, new or long-running
InitPackets == InitWith(1, {0, PidMax - PidLead})

SpecPackets == InitPackets /\ [][NextPackets]_vars

\* Connecting and publishing, with everything the broker may send
NextPublish ==
    \/ ConnectBegin
    \/ ConnectAttempt
    \/ PublishBegin
    \/ PubackStep

SpecPublish == InitPackets /\ [][NextPublish]_vars

\* subscribe() and unsubscribe() against a broker that may deliver messages
\* of QoS 0 and 1 before it acknowledges
Deliveries(awaited, rcs) ==
    PlainEvents(awaited, rcs)
        \cup {Ev("PUBLISH", q, TRUE, TRUE, <<>>) : q \in {0, 1}}

SubackDeliver == \E ev \in Deliveries("SUBACK", <<0>>) : SubackOn(ev)
UnsubackDeliver == \E ev \in Deliveries("UNSUBACK", <<>>) : UnsubackOn(ev)

NextSubscribe ==
    \/ ConnectBegin
    \/ ConnectAttempt
    \/ SubscribeBegin
    \/ SubackDeliver
    \/ UnsubscribeBegin
    \/ UnsubackDeliver

\* a new client, connect_retries 1
InitSubscribe == InitWith(1, {0})

SpecSubscribe == InitSubscribe /\ [][NextSubscribe]_vars

\* loop() and ping() between publishes, with time passing between the calls
NextLoop ==
    \/ ConnectBegin
    \/ ConnectAttempt
    \/ PublishBegin
    \/ PubackPlain
    \/ PingBegin
    \/ PingStep
    \/ LoopBegin
    \/ LoopStep
    \/ LoopAfterPing
    \/ Tick

SpecLoop == InitSubscribe /\ [][NextLoop]_vars

\* subscribe() and unsubscribe() against a broker that grants every topic of
\* a request (one return code 0 per topic) and acknowledges every
\* UNSUBSCRIBE, or is late
SubackExact ==
    /\ pc = "suback"
    /\ \E ev \in PlainEvents("SUBACK", [i \in 1..Len(loc.topics) |-> 0]) :
            SubackOn(ev)

\* connect() of a client that is not connected
FirstConnect == ~IsConnected /\ ConnectBegin

NextSubUnsub ==
    \/ FirstConnect
    \/ ConnectAttempt
    \/ SubscribeBegin
    \/ SubackExact
    \/ UnsubscribeBegin
    \/ UnsubackPlain

SpecSubUnsub == InitSubscribe /\ [][NextSubUnsub]_vars

\* disconnect() and reconnect() of a client with subscriptions
NextReconnect ==
    \/ ConnectBegin
    \/ ConnectAttempt
    \/ SubscribeBegin
    \/ SubackPlain
    \/ Disconnect
    \/ ReconnectBegin
    \/ ResubNext

SpecReconnect == InitSubscribe /\ [][NextReconnect]_vars

-----------------------------------------------------------------------------
(* The message callbacks *)

\* Topics and patterns are lists of levels; "+" stands for one level, "#" as
\* the last level for any number of trailing levels.
Patterns ==
    {<<"sensors", "+", "temp">>, <<"sensors", "#">>,
     <<"sensors", "a", "temp">>, <<"+">>}

InboundTopics ==
    {<<"sensors", "a", "temp">>, <<"sensors", "a", "hum">>, <<"sensors">>,
     <<"other", "a", "temp">>}

RECURSIVE Match(_, _)
Match(P, T) ==
    IF P = <<>> THEN T = <<>>
    ELSE IF P[1] = "#" THEN Len(P) = 1
    ELSE IF T = <<>> THEN FALSE
    ELSE IF P[1] = "+" \/ P[1] = T[1] THEN Match(Tail(P), Tail(T))
    ELSE FALSE

\* self._on_message_filtered.iter_match(topic): the callback of every
\* registered pattern that matches
IterMatch(topic) == {P \in on_message_filtered : Match(P, topic)}

\* if not matched and self.on_message: self.on_message(self, topic, message)
GlobalCallsAlways(matched) == IF on_message THEN 1 ELSE 0
GlobalCalls(matched) == IF ~matched /\ on_message THEN 1 ELSE 0

\* _handle_on_message(topic, message): one call per callback that
\* iter_match yields, then the global handler
HandleOnMessage(topic) ==
    /\ obs' = [obs EXCEPT !.handled =
                  [done |-> TRUE, topic |-> topic, calls |-> IterMatch(topic),
                   counts |-> Cardinality(IterMatch(topic)),
                   global |-> GlobalCalls(IterMatch(topic) # {})]]
    /\ UNCHANGED <<Session, lw, Routing, pid, allocs, acked, sinceSent, unread,
                   sent, pc, loc, ret>>

\* an inbound PUBLISH reaches the callbacks
Dispatch == \E topic \in InboundTopics : HandleOnMessage(topic)

\* add_topic_callback(mqtt_topic, callback_method)
AddTopicCallback ==
    /\ pc = "idle"
    /\ \E P \in Patterns : on_message_filtered' = on_message_filtered \cup {P}
    /\ UNCHANGED <<Session, lw, on_message, pid, allocs, acked, sinceSent, unread,
                   sent, obs, pc, loc, ret>>

\* remove_topic_callback(mqtt_topic) of a registered pattern
RemoveTopicCallback ==
    /\ pc = "idle"
    /\ \E P \in on_message_filtered :
            on_message_filtered' = on_message_filtered \ {P}
    /\ UNCHANGED <<Session, lw, on_message, pid, allocs, acked, sinceSent, unread,
                   sent, obs, pc, loc, ret>>

\* the on_message setter
SetOnMessage ==
    /\ pc = "idle"
    /\ on_message' \in BOOLEAN
    /\ UNCHANGED <<Session, lw, on_message_filtered, pid, allocs, acked, sinceSent,
                   unread, sent, obs, pc, loc, ret>>

NextDispatch ==
    \/ AddTopicCallback
    \/ RemoveTopicCallback
    \/ SetOnMessage
    \/ Dispatch

SpecDispatch == InitSubscribe /\ [][NextDispatch]_vars

-----------------------------------------------------------------------------

\* A broker that accepts the connection and then sends nothing: every read of
\* a waiting call ends with the socket timeout
Silence == Ev("none", 0, TRUE, TRUE, <<>>)

PubackSilent == PubackOn(Silence)
SubackSilent == SubackOn(Silence)
UnsubackSilent == UnsubackOn(Silence)

NextSilent ==
    \/ ConnectBegin
    \/ ConnectAttempt
    \/ PublishBegin
    \/ PubackSilent
    \/ SubscribeBegin
    \/ SubackSilent

\* a waiting call keeps reading: its loop has no other exit
SpecSilent ==
    /\ InitPackets
    /\ [][NextSilent]_vars
    /\ WF_vars(PubackSilent)
    /\ WF_vars(SubackSilent)

\* A broker that acknowledges subscriptions and sends nothing after an
\* UNSUBSCRIBE
NextUnsubSilent ==
    \/ ConnectBegin
    \/ ConnectAttempt
    \/ SubscribeBegin
    \/ SubackPlain
    \/ UnsubscribeBegin
    \/ UnsubackSilent

SpecUnsubSilent ==
    /\ InitPackets
    /\ [][NextUnsubSilent]_vars
    /\ WF_vars(UnsubackSilent)

-----------------------------------------------------------------------------
(* Properties *)

SessionOps == {"publish", "subscribe", "unsubscribe", "ping", "loop"}

\* C1: between public operations the connected flag and the socket agree:
\* _is_connected is true if and only if _sock is not None.
C1_FlagMatchesSocket ==
    pc = "idle" => (is_connected <=> sock # "None")

\* C2: when publish, subscribe, unsubscribe, ping or loop, called on a
\* connected client, fails with a protocol or transport error, the socket
\* has been closed and the client is disconnected when the call returns.
C2_FailureDisconnects ==
    (/\ pc = "idle"
     /\ ret.op \in SessionOps
     /\ obs.wasConnected
     /\ ret.exc \in {"MMQTTException", "OSError"})
    => (sock = "None" /\ ~IsConnected)

\* C3: between public operations _subscribed_topics holds exactly the topics
\* acknowledged with a success code on the current session and not
\* unsubscribed since.
C3_SubscribedExact ==
    pc = "idle" => TopicSet(subscribed_topics) = acked

\* the packets that carry an identifier the client allocated
CarriesId(p) ==
    \/ p.type \in {"SUBSCRIBE", "UNSUBSCRIBE"}
    \/ p.type = "PUBLISH" /\ p.qos > 0

IdsInRange == \A i \in 1..Len(sent) : CarriesId(sent[i]) => sent[i].pid \in 1..PidMax

\* a packet with a new identifier is written in this step
NewId == /\ sent' # sent
         /\ Len(sent') > 0
         /\ CarriesId(sent'[Len(sent')])

\* C4: every packet identifier placed on the wire by publish (QoS 1),
\* subscribe and unsubscribe lies in 1..65535, and the identifier used after
\* 0xFFFF is 1.
C4_PacketIds ==
    /\ []IdsInRange
    /\ [][(NewId /\ pid = PidMax) => sent'[Len(sent')].pid = 1]_vars

C4_Witness ==
    /\ pid = 1
    /\ allocs > pid
    /\ \E i \in 1..Len(sent) : CarriesId(sent[i]) /\ sent[i].pid = 1

ConnectOps == {"connect", "reconnect"}

\* C5: when every attempt of one connect() call fails with a retryable
\* failure, connect() makes exactly connect_retries attempts, raises
\* MMQTTException "Repeated connect failures" ("Connect failure" when
\* connect_retries is 1), holds no socket and is not connected.
C5_ExhaustedRetries ==
    (/\ pc = "idle"
     /\ ret.op \in ConnectOps
     /\ obs.attempts > 0
     /\ obs.fails = obs.attempts)
    => (/\ obs.attempts = reconnect_attempts_max
        /\ ret.exc = "MMQTTException"
        /\ ret.msg = IF reconnect_attempts_max > 1
                     THEN "Repeated connect failures" ELSE "Connect failure"
        /\ sock = "None"
        /\ ~IsConnected)

C5_Witness ==
    /\ pc = "idle"
    /\ ret.op = "connect"
    /\ obs.fails = obs.attempts
    /\ obs.attempts = 3
    /\ ret.msg = "Repeated connect failures"

\* C6: when the broker answers an attempt with CONNACK return code 0x04 or
\* 0x05, connect() makes no further attempt and fails with an error whose
\* code is the return code the broker sent.
C6_FatalRefusal ==
    obs.fatalAt > 0
    => (/\ pc = "idle"
        /\ obs.attempts = obs.fatalAt
        /\ ret.exc = "MMQTTException"
        /\ ret.code = obs.fatalCode)

C6_Witness ==
    /\ obs.fatalAt = 1
    /\ reconnect_attempts_max > 1
    /\ ret.code = 5
    /\ pc = "idle"

\* C7: in a connect() call that starts with the back-off reset, when the
\* attempts 0..i-1 all failed with a protocol error that is not a fatal
\* refusal, the sleep before attempt i >= 1 is min(2^i, 32) seconds plus a
\* jitter of 0 to 1 second: at least 2^i for i <= 5, never more than 33.
C7_BackoffSchedule ==
    (obs.attempts >= 2 /\ obs.startReset /\ obs.protoPrefix)
    => LET i == obs.attempts - 1
           base == Min(2 ^ i, 32) * 1000
       IN  /\ obs.sleepDone >= base
           /\ obs.sleepDone <= base + 1000
           /\ i <= 5 => obs.sleepDone >= (2 ^ i) * 1000
           /\ obs.sleepDone <= 33000

C7_Witness ==
    /\ obs.attempts = 7
    /\ obs.startReset
    /\ obs.protoPrefix
    /\ obs.sleepDone = 33000

C9_SessionPresent ==
    (pc = "idle" /\ ret.op = "connect" /\ ret.exc = "ok")
    => (/\ ret.value = obs.connackFlags % 2
        /\ obs.onConnectFlags = ret.value)

\* C10: publish, subscribe, unsubscribe, ping and loop called on a client
\* that is not connected fail with MMQTTStateError, write nothing and leave
\* the packet identifier, the subscribed topics and the connected flag as
\* they were.
C10_NotConnectedRejected ==
    [][(/\ ~IsConnected
        /\ \/ PublishBegin
           \/ SubscribeBegin
           \/ UnsubscribeBegin
           \/ PingBegin
           \/ LoopBegin)
       => (/\ pc' = "idle"
           /\ ret'.exc = "MMQTTStateError"
           /\ sent' = <<>>
           /\ pid' = pid
           /\ subscribed_topics' = subscribed_topics
           /\ is_connected' = is_connected
           /\ sock' = sock)]_vars

\* the topics publish() is to refuse
BadPublishTopic(t) ==
    t.none \/ t.len = 0 \/ t.len > 65535 \/ t.wild \in {"+", "#"}

C12_UnsupportedQosRejected ==
    [][\A q \in QosLevels \ {0, 1} :
         (/\ IsConnected
          /\ \/ \E t \in PublishTopics : PublishCall(t, q)
             \/ \E topics \in SubRequests : SubscribeCall(topics, q))
         => (/\ pc' = "idle"
             /\ ret'.exc \notin {"ok", "running"}
             /\ sent' = <<>>)]_vars

\* C13: unsubscribe with a list holding a topic that is not in
\* _subscribed_topics fails with a state error before anything is written
\* and leaves _subscribed_topics and the packet identifier unchanged.
C13_UnsubscribeUnknownTopic ==
    [][\A topics \in UnsubRequests :
         (/\ \E i \in 1..Len(topics) :
                \A k \in 1..Len(subscribed_topics) :
                    subscribed_topics[k] # topics[i]
          /\ UnsubscribeCall(topics))
         => (/\ pc' = "idle"
             /\ ret'.exc = "MMQTTStateError"
             /\ sent' = <<>>
             /\ subscribed_topics' = subscribed_topics
             /\ pid' = pid)]_vars

C13_Witness ==
    /\ pc = "idle"
    /\ IsConnected
    /\ ret.op = "unsubscribe"
    /\ ret.exc = "MMQTTStateError"
    /\ Len(subscribed_topics) = 1

\* C14: when the broker sends nothing after a SUBSCRIBE or a QoS 1 PUBLISH,
\* the call ends, with the MMQTTException of the receive timeout and not
\* normally, once more than recv_timeout has passed since the request.
C14_SilenceEndsCall ==
    /\ [](pc \in {"puback", "suback"} => loc.elapsed <= RecvTimeout)
    /\ [][(pc \in {"puback", "suback"} /\ pc' = "idle")
          => (/\ ret'.exc = "MMQTTException"
              /\ ret'.msg = "No data received from broker"
              /\ loc.elapsed + 1 > RecvTimeout)]_vars
    /\ (pc \in {"puback", "suback"}) ~> (pc = "idle" /\ ret.exc = "MMQTTException")

C14_Witness ==
    /\ pc = "idle"
    /\ ret.op = "subscribe"
    /\ ret.exc = "MMQTTException"
    /\ ret.msg = "No data received from broker"

\* C15: when the broker sends nothing after an UNSUBSCRIBE, the call ends
\* with an MMQTTException once more than recv_timeout has passed since the
\* request was written.
C15_UnsubscribeSilenceEndsCall ==
    /\ [](pc = "unsuback" => loc.elapsed <= RecvTimeout)
    /\ (pc = "unsuback") ~> (pc = "idle" /\ ret.exc = "MMQTTException")

\* C16: while subscribe, unsubscribe or a QoS 1 publish waits for its
\* acknowledgment, a control packet that is neither a PUBLISH nor the
\* acknowledgment of that exchange makes the call fail with MMQTTException;
\* it is never skipped.
C16_StrayPacketFailsCall ==
    obs.stray => (pc = "idle" /\ ret.exc = "MMQTTException")

\* C17: a PUBLISH (QoS 0 or 1) that arrives between a SUBSCRIBE or
\* UNSUBSCRIBE and its acknowledgment is handed to the message callbacks as
\* soon as it is read, so in arrival order, and the call goes on waiting; the
\* acknowledgment then completes the call normally, and neither step leaves
\* bytes of the packet on the socket.
C17_PublishBeforeAck ==
    [][\A ev \in Deliveries("SUBACK", <<0>>) \cup Deliveries("UNSUBACK", <<>>) :
         /\ (/\ ev.kind = "PUBLISH"
             /\ ev.qos \in {0, 1}
             /\ SubackOn(ev) \/ UnsubackOn(ev))
            => (/\ obs'.dispatched = obs.dispatched + 1
                /\ pc' = pc
                /\ ret' = ret
                /\ subscribed_topics' = subscribed_topics
                /\ unread' = unread)
         /\ (/\ ev.kind \in {"SUBACK", "UNSUBACK"}
             /\ ev.lenOk
             /\ ev.pidOk
             /\ \A i \in 1..Len(ev.rcs) : ev.rcs[i] \in {0, 1, 2}
             /\ (ev.kind = "SUBACK" /\ SubackOn(ev))
                    \/ (ev.kind = "UNSUBACK" /\ UnsubackOn(ev)))
            => (/\ pc' = "idle"
                /\ ret'.exc = "ok"
                /\ obs'.dispatched = obs.dispatched
                /\ unread' = unread)]_vars

C17_Witness ==
    /\ pc = "idle"
    /\ ret.op \in {"subscribe", "unsubscribe"}
    /\ ret.exc = "ok"
    /\ obs.dispatched = MaxMsgs
    /\ ~unread

\* C18: a QoS 1 publish returns normally only after a PUBACK carrying the
\* packet identifier of its PUBLISH; a PUBACK with another identifier does
\* not complete it; on_publish runs exactly once for the call, with that
\* identifier, after the PUBACK and before the return.
C18_PubackCompletesPublish ==
    /\ []((/\ pc = "idle"
           /\ ret.op = "publish"
           /\ ret.exc = "ok"
           /\ sent # <<>>
           /\ sent[1].type = "PUBLISH"
           /\ sent[1].qos = 1)
          => (/\ obs.ackMatched
              /\ obs.onPublish = 1
              /\ obs.onPublishPid = sent[1].pid))
    /\ [](pc = "puback" => (obs.onPublish = 0 /\ ~obs.ackMatched))
    /\ [][\A ev \in PubackEvents :
            (~ev.pidOk /\ PubackOn(ev)) => ~(pc' = "idle" /\ ret'.exc = "ok")]_vars

C18_Witness ==
    /\ pc = "idle"
    /\ ret.op = "publish"
    /\ ret.exc = "ok"
    /\ sent # <<>>
    /\ sent[1].qos = 1
    /\ obs.onPublish = 1
    /\ obs.onPublishPid = PidMax

\* C19: a turn of the loop of loop() sends a PINGREQ exactly when at least
\* keep_alive has passed since the last CONNECT, PUBLISH, SUBSCRIBE,
\* UNSUBSCRIBE or PINGREQ: a turn entered earlier writes no PINGREQ, a turn
\* entered later writes one (or fails on the socket).
C19_PingWhenKeepAliveDue ==
    [][LoopStep =>
         IF sinceSent >= KeepAlive
         THEN \/ /\ pc' = "pingresp"
                 /\ sent' = <<Pkt("PINGREQ", 0, <<>>, 0)>>
                 /\ sinceSent' = 0
              \/ /\ pc' = "idle"
                 /\ ret'.exc = "OSError"
         ELSE /\ pc' # "pingresp"
              /\ \A i \in 1..Len(sent') :
                    sent'[i].type = "PINGREQ"
                        => (i <= Len(sent) /\ sent[i] = sent'[i])]_vars

C19_Witness ==
    /\ pc = "pingresp"
    /\ loc.caller = "loop"
    /\ loc.lelapsed > 0
    /\ sent = <<Pkt("PINGREQ", 0, <<>>, 0)>>

\* C20: when a PINGREQ was sent by ping() or loop() and no PINGRESP arrives
\* within keep_alive, the call fails and the session is disconnected:
\* is_connected() is false and the socket is closed.
C20_PingTimeoutDisconnects ==
    (/\ pc = "idle"
     /\ ret.op \in {"ping", "loop"}
     /\ ret.exc = "MMQTTException"
     /\ ret.msg = "PINGRESP not returned from broker")
    => (~is_connected /\ sock = "None")

\* C21: reconnect() disconnects exactly when the client is connected at the
\* call: then on_disconnect runs once and the socket is closed once before
\* the new connection attempt; otherwise on_disconnect does not run and no
\* socket is closed.
C21_ReconnectDisconnectStep ==
    /\ [][ReconnectBegin =>
            IF IsConnected
            THEN /\ obs'.disconnects = 1
                 /\ obs'.closed = 1
                 /\ sock' = "None"
                 /\ ~is_connected'
                 /\ pc' = "connecting"
                 /\ obs'.attempts = 0
            ELSE /\ obs'.disconnects = 0
                 /\ obs'.closed = 0
                 /\ sock' = sock
                 /\ is_connected' = is_connected]_vars
    /\ [](ret.op = "reconnect"
            => obs.disconnects = (IF obs.wasConnected THEN 1 ELSE 0))

C21_Witness ==
    /\ pc = "idle"
    /\ ret.op = "reconnect"
    /\ ret.exc = "ok"
    /\ obs.wasConnected
    /\ obs.disconnects = 1
    /\ obs.closed = 1
    /\ obs.attempts = 1

\* C22: when reconnect(resub_topics=True) succeeds on a connected client, a
\* SUBSCRIBE at QoS 0 was sent after the CONNECT for every topic subscribed
\* at the call, on_subscribe ran for each of them with qos 0, and
\* _subscribed_topics holds the same set of topics; with resub_topics=False
\* no SUBSCRIBE is sent and _subscribed_topics is empty.
C22_ReconnectResubscribes ==
    [][(/\ pc # "idle"
        /\ pc' = "idle"
        /\ ret'.op = "reconnect"
        /\ ret'.exc = "ok"
        /\ obs.wasConnected)
       => LET resub == IF pc = "connecting" THEN loc.resubFlag ELSE TRUE
              subs == {i \in 1..Len(sent') : sent'[i].type = "SUBSCRIBE"}
          IN  /\ IsConnected'
              /\ sent'[1].type = "CONNECT"
              /\ IF resub
                 THEN /\ {sent'[i].topics : i \in subs}
                            = {<<t>> : t \in obs.topicsBefore}
                      /\ \A i \in subs : sent'[i].qos = 0
                      /\ obs'.onSubscribe
                            = {<<t, 0>> : t \in obs.topicsBefore}
                      /\ TopicSet(subscribed_topics') = obs.topicsBefore
                 ELSE /\ subs = {}
                      /\ obs'.onSubscribe = {}
                      /\ subscribed_topics' = <<>>]_vars

C22_Witness ==
    /\ pc = "idle"
    /\ ret.op = "reconnect"
    /\ ret.exc = "ok"
    /\ obs.wasConnected
    /\ obs.topicsBefore = {"a", "b"}
    /\ TopicSet(subscribed_topics) = {"a", "b"}
    /\ Len(sent) = 3

\* C23: disconnect() on a connected client writes the DISCONNECT packet,
\* the last bytes written on that socket, closes the socket, clears the
\* connected flag, empties _subscribed_topics and calls on_disconnect once;
\* when the write fails with a socket error the rest still happens and the
\* call does not raise.
C23_DisconnectEffects ==
    [][(IsConnected /\ Disconnect)
       => (/\ pc' = "idle"
           /\ ret'.op = "disconnect"
           /\ ret'.exc = "ok"
           /\ sent' \in {<<Pkt("DISCONNECT", 0, <<>>, 0)>>, <<>>}
           /\ sock' = "None"
           /\ ~is_connected'
           /\ subscribed_topics' = <<>>
           /\ obs'.closed = 1
           /\ obs'.disconnects = 1)]_vars

\* the DISCONNECT packet could not be written
C23_Witness ==
    /\ pc = "idle"
    /\ ret.op = "disconnect"
    /\ ret.exc = "ok"
    /\ sent = <<>>
    /\ sock = "None"
    /\ obs.wasConnected
    /\ obs.disconnects = 1

\* C24: a loop(timeout) call that does not fail returns at most timeout
\* after it was called (to within the socket read in progress), also when a
\* PINGREQ/PINGRESP exchange takes place inside the call.
C24_LoopReturnsInTime ==
    (pc = "idle" /\ ret.op = "loop" /\ ret.exc = "ok")
    => obs.loopElapsed <= obs.loopTimeout + SocketTimeout

C26_LoopTimeoutRejected ==
    [][\A timeout \in LoopTimeouts :
         (timeout < SocketTimeout /\ LoopCall(timeout))
         => (/\ pc' = "idle"
             /\ ret'.exc \in {"MMQTTException", "MMQTTStateError"}
             /\ ret'.msg = "loop timeout"
             /\ sent' = <<>>
             /\ unread' = unread)]_vars

\* C27: for an inbound PUBLISH the callback of every registered pattern
\* that matches the topic is invoked once; the global on_message handler is
\* invoked once when no registered pattern matches and not at all when at
\* least one does.
C27_GlobalHandlerOnlyUnmatched ==
    [][\A topic \in InboundTopics :
         HandleOnMessage(topic)
         => LET matching == {P \in Patterns :
                                P \in on_message_filtered /\ Match(P, topic)}
            IN  /\ obs'.handled.calls = matching
                /\ obs'.handled.counts = Cardinality(matching)
                /\ on_message =>
                      obs'.handled.global = (IF matching = {} THEN 1 ELSE 0)
                /\ ~on_message => obs'.handled.global = 0]_vars

C27_Witness ==
    /\ obs.handled.done
    /\ on_message
    /\ obs.handled.topic = <<"sensors", "a", "temp">>
    /\ obs.handled.counts = Cardinality(Patterns) - 1
    /\ obs.handled.global = 0

\* C28: on a connected client, after acknowledged subscribe calls followed
\* by acknowledged unsubscribe calls that name the same topics (a topic
\* subscribed more than once and then unsubscribed included),
\* _subscribed_topics is empty: once an unsubscribe call has returned and
\* no topic granted on the session is left, the list is empty.
C28_UnsubscribeEmptiesList ==
    (/\ pc = "idle"
     /\ IsConnected
     /\ ret.op = "unsubscribe"
     /\ ret.exc = "ok"
     /\ acked = {})
    => subscribed_topics = <<>>

\* Setting the last will, connecting and disconnecting
NextWill ==
    \/ WillSet
    \/ ConnectBegin
    \/ ConnectAttempt
    \/ Disconnect

SpecWill == InitSubscribe /\ [][NextWill]_vars

\* C29: the last-will fields change only while the client is not connected;
\* will_set called on a connected client ends with an MMQTTStateError and
\* leaves _lw_topic, _lw_msg, _lw_qos, _lw_retain and _pid as they were.
C29_WillSetOnlyBeforeConnect ==
    [][/\ lw' # lw => ~IsConnected
       /\ \A t \in WillTopics, m \in WillMsgs, r \in BOOLEAN, q \in WillQos :
            (IsConnected /\ WillSetCall(t, m, r, q))
                => /\ ret'.op = "will_set"
                   /\ ret'.exc = "MMQTTStateError"
                   /\ lw' = lw
                   /\ pid' = pid]_vars

C29_Witness ==
    /\ IsConnected
    /\ obs.wasConnected
    /\ ret.op = "will_set"
    /\ ret.exc = "MMQTTStateError"
    /\ lw # NoWill
    /\ lw.qos > 0

\* subscribe() against every SUBACK the broker may answer with, or silence
SubackAnswer ==
    \E ev \in SubackEvents \cup {Ev("none", 0, TRUE, TRUE, <<>>)} : SubackOn(ev)

NextSuback ==
    \/ FirstConnect
    \/ ConnectAttempt
    \/ SubscribeBegin
    \/ SubackAnswer

SpecSuback == InitSubscribe /\ [][NextSuback]_vars

\* the SUBACK ev answers the request and refuses one of its topics
Refuses(ev) ==
    /\ pc = "suback"
    /\ ev.kind = "SUBACK"
    /\ ev.lenOk
    /\ ev.pidOk
    /\ \E i \in 1..Min(Len(loc.topics), Len(ev.rcs)) : ev.rcs[i] \notin {0, 1, 2}

\* C30: a SUBACK that answers the subscribe call with a return code outside
\* {0, 1, 2} for a topic of the request ends the call with an
\* MMQTTException; on_subscribe runs for no topic and _subscribed_topics
\* stays as it was.
C30_RefusedSubscribeFails ==
    [][\A ev \in SubackEvents :
          (Refuses(ev) /\ SubackOn(ev))
              => /\ pc' = "idle"
                 /\ ret'.op = "subscribe"
                 /\ ret'.exc = "MMQTTException"
                 /\ obs'.onSubscribe = {}
                 /\ subscribed_topics' = subscribed_topics]_vars

C30_Witness ==
    /\ pc = "idle"
    /\ ret.op = "subscribe"
    /\ ret.exc = "MMQTTException"
    /\ ret.msg = SubackFailure
    /\ obs.onSubscribe = {}
    /\ subscribed_topics = <<"a">>
    /\ acked = {"a", "b"}

\* Calls that wait for an acknowledgment while the broker delivers messages
\* of QoS 0 and 1 under several packet identifiers
InboundPids == {1, 2, PidMax}

Inbound == {Publish(q, p) : q \in {0, 1}, p \in InboundPids}

PubackInbound == \E ev \in PlainEvents("PUBACK", <<>>) \cup Inbound : PubackOn(ev)
SubackInbound == \E ev \in PlainEvents("SUBACK", <<0>>) \cup Inbound : SubackOn(ev)
UnsubackInbound ==
    \E ev \in PlainEvents("UNSUBACK", <<>>) \cup Inbound : UnsubackOn(ev)

NextInbound ==
    \/ FirstConnect
    \/ ConnectAttempt
    \/ PublishBegin
    \/ PubackInbound
    \/ SubscribeBegin
    \/ SubackInbound
    \/ UnsubscribeBegin
    \/ UnsubackInbound

SpecInbound == InitSubscribe /\ [][NextInbound]_vars

\* the pump of a waiting call handles ev
Pumps(ev) == PubackOn(ev) \/ SubackOn(ev) \/ UnsubackOn(ev)

\* C31: for an inbound PUBLISH of QoS 1 the pump runs the message callbacks
\* and then writes exactly one PUBACK that carries the packet identifier of
\* the PUBLISH; for an inbound PUBLISH of QoS 0 it runs the callbacks and
\* writes nothing.
C31_PubackAfterCallbacks ==
    [][\A ev \in Inbound :
          Pumps(ev) =>
              /\ obs'.dispatched = obs.dispatched + 1
              /\ IF ev.qos = 1
                 THEN /\ WaitForMsg(ev).effects = <<"on_message", "PUBACK">>
                      /\ sent' = Append(sent, Pkt("PUBACK", ev.pid, <<>>, 0))
                 ELSE /\ WaitForMsg(ev).effects = <<"on_message">>
                      /\ sent' = sent]_vars

C31_Witness ==
    /\ pc = "suback"
    /\ obs.dispatched = 2
    /\ Len(sent) = 2
    /\ sent[2] = Pkt("PUBACK", 2, <<>>, 0)

\* C32: an inbound PUBLISH of QoS 2 makes the call that received it fail,
\* no acknowledgment is written for it, and the session is disconnected
\* when the call has ended.
C32_Qos2IsFatal ==
    [][\A ev \in {Publish(2, p) : p \in InboundPids} :
          Pumps(ev) =>
              /\ pc' = "idle"
              /\ ret'.exc \notin {"ok", "running"}
              /\ sent' = sent
              /\ ~IsConnected']_vars

-----------------------------------------------------------------------------
(* The remaining-length field *)

RemainingLengthMax == 268435455

\* the outcome of one of the two functions
Coded(exc, bytes, value, reads) ==
    [exc |-> exc, bytes |-> bytes, value |-> value, reads |-> reads]

\* if remaining_length > 268_435_455
RejectsLengthNever(v) == FALSE
RejectsLength(v) == v > RemainingLengthMax

\* the while loop of _encode_remaining_length
RECURSIVE EncodeLoop(_, _)
EncodeLoop(rest, bytes) ==
    IF rest > 0
    THEN LET encoded_byte == rest % 128
             next == rest \div 128
         IN  EncodeLoop(next, Append(bytes, IF next > 0 THEN encoded_byte + 128
                                            ELSE encoded_byte))
    ELSE bytes

\* _encode_remaining_length(fixed_header, v): the bytes appended
EncodeRemainingLength(v) ==
    IF RejectsLength(v) THEN Coded("MMQTTException", <<>>, 0, 0)
    ELSE IF v > 127 THEN Coded("ok", EncodeLoop(v, <<>>), 0, 0)
    ELSE Coded("ok", <<v>>, 0, 0)

\* the loop of _decode_remaining_length over the bytes the socket holds,
\* after reads bytes have been taken; the bits of (b & 0x7F) << sh lie above
\* those of n, so that n |= ... adds them
RECURSIVE DecodeLoop(_, _, _, _)
DecodeLoop(stream, n, sh, reads) ==
    IF sh > 28 THEN Coded("MMQTTException", <<>>, 0, reads)
    ELSE IF reads >= Len(stream) THEN Coded("blocked", <<>>, 0, reads)
    ELSE LET b == stream[reads + 1]
             m == n + (b % 128) * (2 ^ sh)
         IN  IF b < 128 THEN Coded("ok", <<>>, m, reads + 1)
             ELSE DecodeLoop(stream, m, sh + 7, reads + 1)

\* _decode_remaining_length()
DecodeRemainingLength(stream) == DecodeLoop(stream, 0, 0, 0)

\* the bytes a broker may send as a length field: any byte in the first four
\* places, and a fifth byte of at most three low bits
LengthBytes == {0, 127, 128, 255}
FifthBytes == {0, 7, 128, 135}
Streams ==
    {<<a, b, c, d, e>> : a \in LengthBytes, b \in LengthBytes, c \in LengthBytes,
                         d \in LengthBytes, e \in FifthBytes}

\* the lengths a packet may be given
Lengths ==
    {0, 1, 127, 128, 129, 16383, 16384, 2097151, 2097152,
     RemainingLengthMax, RemainingLengthMax + 1, 2 * (RemainingLengthMax + 1)}

InitLength ==
    /\ sock = "None"
    /\ is_connected = FALSE
    /\ pid = 0
    /\ subscribed_topics = <<>>
    /\ reconnect_attempt = 0
    /\ reconnect_timeout = 0
    /\ reconnect_attempts_max = 1
    /\ sinceSent = KeepAlive
    /\ pc = "idle"
    /\ \E stream \in Streams, v \in Lengths :
            loc = [op |-> "none", stream |-> stream, length |-> v]
    /\ ret = NoRet
    /\ sent = <<>>
    /\ obs = NoObs
    /\ acked = {}
    /\ allocs = 0
    /\ unread = FALSE
    /\ on_message_filtered = {}
    /\ on_message = FALSE
    /\ lw = NoWill

\* _decode_remaining_length() on the stream
DecodeCall ==
    /\ pc = "idle"
    /\ ret' = Ret("_decode_remaining_length",
                  DecodeRemainingLength(loc.stream).exc, 0, "",
                  DecodeRemainingLength(loc.stream))
    /\ UNCHANGED <<Session, Routing, lw, pid, allocs, acked, sinceSent, unread,
                   sent, obs, pc, loc>>

\* _encode_remaining_length() of the length; value: what
\* _decode_remaining_length() makes of the bytes appended
EncodeCall ==
    /\ pc = "idle"
    /\ ret' = Ret("_encode_remaining_length",
                  EncodeRemainingLength(loc.length).exc, 0, "",
                  [bytes |-> EncodeRemainingLength(loc.length).bytes,
                   back |-> DecodeRemainingLength(
                                EncodeRemainingLength(loc.length).bytes)])
    /\ UNCHANGED <<Session, Routing, lw, pid, allocs, acked, sinceSent, unread,
                   sent, obs, pc, loc>>

NextLength == DecodeCall \/ EncodeCall

SpecLength == InitLength /\ [][NextLength]_vars

\* C33: _decode_remaining_length fails with an MMQTTException when the
\* fourth length byte has its continuation bit set; it never reads a fifth
\* byte and never returns a value above 268435455.
C33_DecodeStopsAtFourBytes ==
    ret.op = "_decode_remaining_length" =>
        /\ ret.value.reads <= 4
        /\ ret.exc = "ok" => ret.value.value <= RemainingLengthMax
        /\ (\A i \in 1..4 : loc.stream[i] >= 128) => ret.exc = "MMQTTException"

\* C34: for a length of at most 268435455 _encode_remaining_length appends
\* between one and four bytes, and _decode_remaining_length reads exactly
\* these bytes and returns the length; a larger length is rejected with an
\* MMQTTException and nothing is appended.
C34_LengthRoundTrip ==
    ret.op = "_encode_remaining_length" =>
        IF loc.length <= RemainingLengthMax
        THEN /\ ret.exc = "ok"
             /\ Len(ret.value.bytes) \in 1..4
             /\ ret.value.back.exc = "ok"
             /\ ret.value.back.value = loc.length
             /\ ret.value.back.reads = Len(ret.value.bytes)
        ELSE /\ ret.exc = "MMQTTException"
             /\ ret.value.bytes = <<>>

C34_Witness ==
    /\ ret.op = "_encode_remaining_length"
    /\ loc.length = RemainingLengthMax
    /\ ret.value.bytes = <<255, 255, 255, 127>>
    /\ ret.value.back.value = RemainingLengthMax

-----------------------------------------------------------------------------
(* The bytes of a SUBSCRIBE packet *)

\* str.encode("utf-8") of one character of the Basic Multilingual Plane
Utf8(c) ==
    IF c < 128 THEN <<c>>
    ELSE IF c < 2048 THEN <<192 + (c \div 64), 128 + (c % 64)>>
    ELSE <<224 + (c \div 4096), 128 + ((c \div 64) % 64), 128 + (c % 64)>>

\* t.encode("utf-8"), t a sequence of characters
RECURSIVE Encode(_)
Encode(t) ==
    IF t = <<>> THEN <<>>
    ELSE IF Len(t) = 1 THEN Utf8(t[1])
    ELSE LET half == Len(t) \div 2
         IN  Encode(SubSeq(t, 1, half)) \o Encode(SubSeq(t, half + 1, Len(t)))

\* n.to_bytes(2, "big")
ToBytes2(n) == <<n \div 256, n % 256>>

\* the topics tried: "a", "foo/bar", "é/€" and "f" + "o" * 257
LongTopic == [i \in 1..258 |-> IF i = 1 THEN 102 ELSE 111]
TopicTexts == {<<97>>, <<102, 111, 111, 47, 98, 97, 114>>, <<233, 47, 8364>>, LongTopic}

Pair(t, q) == [topic |-> t, qos |-> q]

\* subscribe(topic, qos): topic a string, a (topic, qos) tuple or a list of
\* such tuples, given by its form and the pairs it holds
Request(form, pairs, q) == [form |-> form, pairs |-> pairs, qos |-> q]

ListPairs == {Pair(t, q) : t \in {<<97>>, <<233, 47, 8364>>}, q \in {0, 2}}

Requests ==
    {Request("str", <<Pair(t, 0)>>, q) : t \in TopicTexts, q \in 0..2}
    \cup {Request("tuple", <<Pair(t, q)>>, 0) : t \in TopicTexts, q \in 0..2}
    \cup {Request("list", <<a>>, 0) : a \in ListPairs}
    \cup {Request("list", <<a, b>>, 0) : a \in ListPairs, b \in ListPairs}

\* the list topics that subscribe() builds from its arguments
TopicsOf(req) ==
    IF req.form = "str" THEN <<Pair(req.pairs[1].topic, req.qos)>>
    ELSE req.pairs

RECURSIVE SumLen(_)
SumLen(topics) ==
    IF topics = <<>> THEN 0
    ELSE Len(Encode(Head(topics).topic)) + SumLen(Tail(topics))

\* packet_length
PacketLengthNoQos(topics) == 2 + (2 * Len(topics)) + SumLen(topics)
PacketLength(topics) ==
    2 + (2 * Len(topics)) + (1 * Len(topics)) + SumLen(topics)

\* payload += topic_size + t.encode() + qos_byte
RECURSIVE Payload(_)
Payload(topics) ==
    IF topics = <<>> THEN <<>>
    ELSE ToBytes2(Len(Encode(Head(topics).topic)))
            \o Encode(Head(topics).topic) \o <<Head(topics).qos>>
            \o Payload(Tail(topics))

\* a connected client that has allocated any number of packet identifiers,
\* and the request it is given
InitWrite ==
    /\ sock = "open"
    /\ is_connected = TRUE
    /\ pid \in {0, 1, 255, PidMax - 1, PidMax}
    /\ subscribed_topics = <<>>
    /\ reconnect_attempt = 0
    /\ reconnect_timeout = 0
    /\ reconnect_attempts_max = 1
    /\ sinceSent = 0
    /\ pc = "idle"
    /\ \E req \in Requests : loc = [op |-> "none", request |-> req]
    /\ ret = Ret("connect", "ok", 0, "", 0)
    /\ sent = <<>>
    /\ obs = NoObs
    /\ acked = {}
    /\ allocs = 0
    /\ unread = FALSE
    /\ on_message_filtered = {}
    /\ on_message = FALSE
    /\ lw = NoWill

\* subscribe() up to the last _send_bytes: the three writes, byte by byte
SubscribeWrite ==
    /\ pc = "idle"
    /\ IsConnected
    /\ pid' = NextPid(pid)
    /\ sent' = <<<<130>> \o EncodeRemainingLength(
                              PacketLength(TopicsOf(loc.request))).bytes,
                 ToBytes2(pid'),
                 Payload(TopicsOf(loc.request))>>
    /\ sinceSent' = 0
    /\ pc' = "suback"
    /\ ret' = Running("subscribe")
    /\ UNCHANGED <<Session, Routing, lw, allocs, acked, unread, obs, loc>>

SpecWrite == InitWrite /\ [][SubscribeWrite]_vars

\* the bytes of the writes, one after the other
RECURSIVE Flat(_)
Flat(writes) == IF writes = <<>> THEN <<>> ELSE Head(writes) \o Flat(Tail(writes))

\* the topic entries of a SUBSCRIBE: length, UTF-8 bytes, QoS byte
RECURSIVE Entries(_)
Entries(pairs) ==
    IF pairs = <<>> THEN <<>>
    ELSE LET t == Encode(Head(pairs).topic)
         IN  <<Len(t) \div 256, Len(t) % 256>> \o t \o <<Head(pairs).qos>>
                \o Entries(Tail(pairs))

\* the pairs (ti, qi) a request names, in request order
Asked(req) ==
    [i \in 1..Len(req.pairs) |->
        Pair(req.pairs[i].topic,
             IF req.form = "str" THEN req.qos ELSE req.pairs[i].qos)]

\* C35: subscribe() writes 0x82, the variable-length encoding of
\* 2 + sum(2 + len(ti) + 1), the packet identifier in two big-endian bytes and
\* then, per topic in request order, its two-byte length, its UTF-8 bytes and
\* its QoS byte; a fresh client uses packet identifier 1.
C35_SubscribeBytes ==
    [][SubscribeWrite =>
          LET asked == Asked(loc.request)
              body == Entries(asked)
          IN  /\ Flat(sent') =
                    <<130>> \o EncodeRemainingLength(2 + Len(body)).bytes
                        \o <<pid' \div 256, pid' % 256>> \o body
              /\ Len(body) = SumLen(asked) + 3 * Len(asked)
              /\ pid = 0 => pid' = 1]_vars

\* the packet of test_subscribe.py for "foo/bar"
C35_Witness ==
    /\ pc = "suback"
    /\ loc.request.form = "tuple"
    /\ Flat(sent) = <<130, 12, 0, 1, 0, 7, 102, 111, 111, 47, 98, 97, 114, 0>>

\* C36: whenever connect() ends with an error, the socket acquired for the
\* failed attempt has been closed and _sock is None on return.
C36_FailedConnectClosesSocket ==
    (pc = "idle" /\ ret.op = "connect" /\ ret.exc # "ok") => sock = "None"

\* C37: the first connection attempt of every connect() or reconnect() call
\* is made without a back-off sleep, whatever the previous call left behind.
C37_FirstAttemptNeverSleeps ==
    (ret.op \in {"connect", "reconnect"} /\ obs.attempts = 1)
        => obs.sleepDone = 0

-----------------------------------------------------------------------------
(* ping() and loop() over the bytes of the socket *)

\* Time in this section is counted in ticks, two to the socket timeout.
TicksPerTimeout == 2

\* one byte on its way to the client: its value, the tick at which it can be
\* read, and whether it is the first byte of a control packet
Byte(b, at, first) == [b |-> b, at |-> at, first |-> first]

\* the packet bytes, arriving together at tick at
Arriving(bytes, at) == [i \in 1..Len(bytes) |-> Byte(bytes[i], at, i = 1)]

\* the packets a broker may send while the client pings or loops: PINGRESP,
\* CONNACK, PUBACK, SUBACK and UNSUBACK for the identifiers 1 and 0xD000,
\* and a PUBLISH of QoS 0 for topic "a"
WirePackets ==
    {<<208, 0>>, <<32, 2, 0, 0>>, <<64, 2, 0, 1>>, <<64, 2, 208, 0>>,
     <<144, 3, 0, 1, 0>>, <<144, 3, 208, 0, 0>>, <<176, 2, 0, 1>>,
     <<48, 3, 0, 1, 97>>}

WireStreams ==
    {<<>>}
    \cup {Arriving(a, t) : a \in WirePackets, t \in {0, 1, 3}}
    \cup {Arriving(a, t) \o Arriving(b, t + d) :
            a \in WirePackets, b \in WirePackets, t \in {0, 1, 3}, d \in {0, 1}}

\* the later of two ticks
Later(a, b) == IF a > b THEN a ELSE b

\* the outcome of a call that reads: the packet type returned (-1 for None),
\* the exception raised, the bytes taken so far, the time, the packet types
\* collected and whether a PUBACK was written
Read(op, exc, pos, now, rcs, wrote) ==
    [op |-> op, exc |-> exc, pos |-> pos, now |-> now, rcs |-> rcs,
     wrote |-> wrote]

RawBytes(stream, pos) == [i \in 1..(Len(stream) - pos) |-> stream[pos + i].b]

\* _wait_for_msg() at tick now, pos bytes of the stream taken
WaitBytes(stream, pos, now) ==
    IF pos >= Len(stream) \/ stream[pos + 1].at >= now + TicksPerTimeout
    THEN Read(-1, "ok", pos, now + TicksPerTimeout, <<>>, FALSE)
    ELSE LET res == stream[pos + 1].b
             t == Later(now, stream[pos + 1].at)
             pkt_type == res - (res % 16)
             flags == (res \div 2) % 4
         IN  IF pkt_type = 208
             THEN IF pos + 2 > Len(stream)
                  THEN Read(-1, "OSError", pos + 1, t, <<>>, FALSE)
                  ELSE IF stream[pos + 2].b # 0
                  THEN Read(-1, "MMQTTException", pos + 2, t, <<>>, FALSE)
                  ELSE Read(pkt_type, "ok", pos + 2, Later(t, stream[pos + 2].at),
                            <<>>, FALSE)
             ELSE IF pkt_type # 48
             THEN Read(pkt_type, "ok", pos + 1, t, <<>>, FALSE)
             ELSE LET d == DecodeRemainingLength(RawBytes(stream, pos + 1))
                      body == pos + 1 + d.reads
                      topic_len == stream[body + 1].b * 256 + stream[body + 2].b
                      needed == 2 + topic_len + (IF flags # 0 THEN 2 ELSE 0)
                      last == body + (IF d.value > needed THEN d.value ELSE needed)
                  IN  IF d.exc = "blocked" \/ (d.exc = "ok" /\ body + 2 > Len(stream))
                      THEN Read(-1, "OSError", pos + 1, t, <<>>, FALSE)
                      ELSE IF d.exc # "ok"
                      THEN Read(-1, d.exc, body, t, <<>>, FALSE)
                      ELSE IF topic_len > d.value - 2
                      THEN Read(-1, "MMQTTException", body + 2, t, <<>>, FALSE)
                      ELSE IF last > Len(stream)
                      THEN Read(-1, "OSError", Len(stream), t, <<>>, FALSE)
                      ELSE IF d.value < needed
                      THEN Read(-1, "ValueError", last, t, <<>>, FALSE)
                      ELSE IF flags = 2
                      THEN Read(-1, "AssertionError", last, t, <<>>, FALSE)
                      ELSE Read(pkt_type, "ok", last, Later(t, stream[last].at),
                                <<>>, flags = 1)

\* the next byte the client reads is the first byte of a control packet
Aligned(stream, pos) == pos >= Len(stream) \/ stream[pos + 1].first

\* ticks since the last packet was written, when the call is made: none, or
\* the keep-alive interval
SinceWritten == {0, KeepAlive * TicksPerTimeout}

\* a client that has just connected, what the broker sends it, the timeout of
\* the loop() call to come and the tick _last_msg_sent_timestamp holds
InitStream ==
    /\ sock = "open"
    /\ is_connected = TRUE
    /\ pid = 0
    /\ subscribed_topics = <<>>
    /\ reconnect_attempt = 0
    /\ reconnect_timeout = 0
    /\ reconnect_attempts_max = 1
    /\ sinceSent = 0
    /\ pc = "idle"
    /\ \E stream \in WireStreams, timeout \in {2, 3}, since \in SinceWritten :
            loc = [op |-> "none", stream |-> stream, timeout |-> timeout,
                   written |-> 0 - since, pos |-> 0, now |-> 0, stamp |-> 0,
                   rcs |-> <<>>, pstamp |-> 0, prcs |-> <<>>]
    /\ ret = Ret("connect", "ok", 0, "", 0)
    /\ sent = <<>>
    /\ obs = NoObs
    /\ acked = {}
    /\ allocs = 0
    /\ unread = FALSE
    /\ on_message_filtered = {}
    /\ on_message = FALSE
    /\ lw = NoWill

StreamUnchanged ==
    UNCHANGED <<Session, Routing, lw, pid, allocs, acked, sinceSent, unread,
                sent, obs>>

\* the call on the stream returns or raises with pos bytes taken
Returns(exc, pos, now, rcs) ==
    /\ pc' = "idle"
    /\ loc' = [loc EXCEPT !.pos = pos, !.now = now]
    /\ ret' = Ret(loc.op, exc, 0, "",
                  [pos |-> pos, rcs |-> rcs,
                   aligned |-> Aligned(loc.stream, pos)])

\* ping() on the stream: the PINGREQ is written
PingOverBytes ==
    /\ pc = "idle"
    /\ ret.op = "connect"
    /\ pc' = "pingwait"
    /\ loc' = [loc EXCEPT !.op = "ping", !.written = 0]
    /\ ret' = Running("ping")
    /\ StreamUnchanged

\* one turn of the loop of ping(), called by the user or by loop()
PingBytesStep ==
    LET w == WaitBytes(loc.stream, loc.pos, loc.now)
        seen == IF w.op > 0 THEN Append(loc.prcs, w.op) ELSE loc.prcs
    IN  /\ pc = "pingwait"
        /\ StreamUnchanged
        /\ IF w.exc # "ok" THEN Returns(w.exc, w.pos, w.now, <<>>)
           ELSE IF w.now - loc.pstamp > KeepAlive * TicksPerTimeout
           THEN Returns("MMQTTException", w.pos, w.now, <<>>)
           ELSE IF w.op # 208
           THEN /\ loc' = [loc EXCEPT !.pos = w.pos, !.now = w.now, !.prcs = seen]
                /\ UNCHANGED <<pc, ret>>
           ELSE IF loc.op = "ping" THEN Returns("ok", w.pos, w.now, seen)
           ELSE IF w.now - loc.stamp > loc.timeout
           THEN Returns("ok", w.pos, w.now, loc.rcs \o seen)
           ELSE /\ pc' = "loopwait"
                /\ loc' = [loc EXCEPT !.pos = w.pos, !.now = w.now,
                                      !.rcs = loc.rcs \o seen]
                /\ ret' = ret

\* loop(timeout) on the stream
LoopOverBytes ==
    /\ pc = "idle"
    /\ ret.op = "connect"
    /\ pc' = "loopturn"
    /\ loc' = [loc EXCEPT !.op = "loop"]
    /\ ret' = Running("loop")
    /\ StreamUnchanged

\* the top of the loop of loop(): ping() when the keep-alive is due
LoopTurn ==
    /\ pc = "loopturn"
    /\ StreamUnchanged
    /\ ret' = ret
    /\ IF loc.now - loc.written >= KeepAlive * TicksPerTimeout
       THEN /\ pc' = "pingwait"
            /\ loc' = [loc EXCEPT !.written = loc.now, !.pstamp = loc.now,
                                  !.prcs = <<>>]
       ELSE /\ pc' = "loopwait"
            /\ loc' = loc

\* the rest of the turn: _wait_for_msg() and the timeout of loop()
LoopWaitBytes ==
    LET w == WaitBytes(loc.stream, loc.pos, loc.now)
        seen == IF w.op # -1 THEN Append(loc.rcs, w.op) ELSE loc.rcs
    IN  /\ pc = "loopwait"
        /\ StreamUnchanged
        /\ IF w.exc # "ok" THEN Returns(w.exc, w.pos, w.now, <<>>)
           ELSE IF w.now - loc.stamp > loc.timeout
           THEN Returns("ok", w.pos, w.now, seen)
           ELSE /\ pc' = "loopturn"
                /\ loc' = [loc EXCEPT !.pos = w.pos, !.now = w.now, !.rcs = seen]
                /\ ret' = ret

NextStream ==
    \/ PingOverBytes
    \/ PingBytesStep
    \/ LoopOverBytes
    \/ LoopTurn
    \/ LoopWaitBytes

SpecStream == InitStream /\ [][NextStream]_vars

\* C38: whenever loop() or ping() returns normally the client has consumed
\* whole packets only: the next byte it reads is the first byte of a control
\* packet.
C38_WholePacketsConsumed ==
    (pc = "idle" /\ ret.op \in {"loop", "ping"} /\ ret.exc = "ok")
        => ret.value.aligned

\* reconnect() of a connected client with subscriptions raises out of connect()
ReconnectFails ==
    /\ pc = "connecting"
    /\ loc.caller = "reconnect"
    /\ obs.topicsBefore # {}
    /\ pc' = "idle"
    /\ ret'.exc # "ok"

\* a SUBSCRIBE packet is among the packets written by the step
SendsSubscribe ==
    \E k \in 1..Len(sent') : sent'[k].type = "SUBSCRIBE"

\* C39: when reconnect() is called on a connected client with subscriptions
\* and its connect step fails, the client is left disconnected with an empty
\* _subscribed_topics and no snapshot; a reconnect() called on a disconnected
\* client takes an empty snapshot, and a reconnect() with an empty snapshot
\* sends no SUBSCRIBE.
C39_FailedReconnectForgetsTopics ==
    [][/\ ReconnectFails
            => (~IsConnected' /\ subscribed_topics' = <<>> /\ loc' = NoLoc)
       /\ (pc = "idle" /\ ~IsConnected /\ pc' = "connecting"
             /\ ret'.op = "reconnect")
            => loc'.resub = <<>>
       /\ (pc = "connecting" /\ loc.caller = "reconnect" /\ loc.resub = <<>>)
            => (pc' # "resub" /\ ~SendsSubscribe)]_vars

\* reconnect() has failed in connect() after dropping "a" or "b"
C39_Witness ==
    /\ pc = "idle"
    /\ ret.op = "reconnect"
    /\ ret.exc = "MMQTTException"
    /\ obs.topicsBefore # {}
    /\ obs.disconnects = 1
    /\ ~IsConnected
    /\ subscribed_topics = <<>>

-----------------------------------------------------------------------------
(* A call that waits for its acknowledgment under inbound traffic *)

\* an unrelated PUBLISH of QoS 0 whose first byte arrives as the socket
\* timeout of the read is about to expire
LatePublish == [Publish(0, 1) EXCEPT !.late = TRUE]

\* the broker never acknowledges: every read meets nothing or a PUBLISH
Traffic == {Silence, LatePublish}

PubackTraffic == \E ev \in Traffic : PubackOn(ev)
SubackTraffic == \E ev \in Traffic : SubackOn(ev)

NextTraffic ==
    \/ FirstConnect
    \/ ConnectAttempt
    \/ PublishBegin
    \/ PubackTraffic
    \/ SubscribeBegin
    \/ SubackTraffic

SpecTraffic == InitSubscribe /\ [][NextTraffic]_vars

\* C40: a subscribe() or QoS-1 publish() whose acknowledgment never arrives
\* is no longer waiting once recv_timeout plus one socket read have passed
\* since the request was sent, whatever PUBLISH packets arrive meanwhile.
C40_TrafficCannotExtendWait ==
    pc \in {"puback", "suback"} => loc.elapsed <= RecvTimeout + SocketTimeout

====
